---- MODULE Spec2Model ----
(***************************************************************************)
(* Location maps of the RPG companion extension: the map modal (mapUI.js), *)
(* the response parser and location context builder (mapPrompts.js) and    *)
(* the per-chat persistence of the map collection and the preset manager   *)
(* (persistence.js).                                                       *)
(*                                                                         *)
(* JavaScript values are tagged records, so that values of different       *)
(* JavaScript types compare unequal instead of being incomparable:         *)
(*   [str |-> s]  [num |-> n]  [bool |-> b]  [null |-> TRUE]               *)
(*   [undef |-> TRUE]  [arr |-> <<v1, ...>>]  [obj |-> [key |-> v, ...]]   *)
(* Text (a service response, an exported file) is a sequence of lexical    *)
(* units: one unit per punctuation character, per run of whitespace and    *)
(* per run of word characters (the \w+ of the source's regular             *)
(* expressions).                                                           *)
(***************************************************************************)
EXTENDS Integers, Sequences, FiniteSets, TLC

(***************************************************************************)
(* Bounds of the model.                                                    *)
(***************************************************************************)
MaxClock == 3
MaxMaps == 2
MaxNum == 12

(***************************************************************************)
(* JavaScript values.                                                      *)
(***************************************************************************)
Str(s) == [str |-> s]
Num(n) == [num |-> n]
Bool(b) == [bool |-> b]
Null == [null |-> TRUE]
Undefined == [undef |-> TRUE]
Arr(s) == [arr |-> s]
Obj(f) == [obj |-> f]

IsStr(v) == DOMAIN v = {"str"}
IsNum(v) == DOMAIN v = {"num"}
IsArr(v) == DOMAIN v = {"arr"}
IsObj(v) == DOMAIN v = {"obj"}

\* o.k : undefined when o has no property k (o an object)
Get(o, k) == IF IsObj(o) /\ k \in DOMAIN o.obj THEN o.obj[k] ELSE Undefined

\* a property read o.k of the source throws a TypeError on null and undefined
ReadThrows(o) == o = Null \/ o = Undefined

\* !!v
Truthy(v) ==
    CASE v = Null -> FALSE
      [] v = Undefined -> FALSE
      [] IsStr(v) -> v.str # ""
      [] IsNum(v) -> v.num # 0
      [] DOMAIN v = {"bool"} -> v.bool
      [] OTHER -> TRUE

\* a || b
Or(a, b) == IF Truthy(a) THEN a ELSE b

\* { ...o, k: v }
With(o, k, v) ==
    Obj([x \in DOMAIN o.obj \cup {k} |-> IF x = k THEN v ELSE o.obj[x]])

(***************************************************************************)
(* Text as a sequence of units.                                            *)
(***************************************************************************)
DQ == "\""
SQ == "'"
\* the three backquotes that open and close a fenced code block
FENCE == "<fence>"
WS == {" ", "\n"}
Punct == {"{", "}", "[", "]", ",", ":", DQ, SQ, FENCE, "!", "."} \cup WS

\* \w+
IsWord(u) == u \notin Punct

Numeral(n) == ToString(n)
Numerals == {Numeral(n) : n \in 0..MaxNum}
NumberOf(u) == CHOOSE n \in 0..MaxNum : Numeral(n) = u

RECURSIVE SkipWS(_, _)
\* the first index >= i of t that holds no whitespace (Len(t)+1 at the end)
SkipWS(t, i) ==
    IF i <= Len(t) /\ t[i] \in WS THEN SkipWS(t, i + 1) ELSE i

RECURSIVE Concat(_)
Concat(units) ==
    IF units = <<>> THEN "" ELSE Head(units) \o Concat(Tail(units))

RECURSIVE FindFrom(_, _, _)
\* the first index >= i of t holding unit u, 0 when there is none
FindFrom(t, u, i) ==
    IF i > Len(t) THEN 0
    ELSE IF t[i] = u THEN i ELSE FindFrom(t, u, i + 1)

RECURSIVE FindLast(_, _, _)
\* the last index <= i of t holding unit u, 0 when there is none
FindLast(t, u, i) ==
    IF i < 1 THEN 0
    ELSE IF t[i] = u THEN i ELSE FindLast(t, u, i - 1)

RECURSIVE TrimEnd(_)
TrimEnd(t) ==
    IF t # <<>> /\ t[Len(t)] \in WS THEN TrimEnd(SubSeq(t, 1, Len(t) - 1)) ELSE t

\* String.prototype.trim
Trim(t) == LET s == SkipWS(t, 1) IN TrimEnd(SubSeq(t, s, Len(t)))

(***************************************************************************)
(* JSON.parse: a recursive descent over the units.  A result is            *)
(* [ok, val, pos]: pos is the index after the value.  JSONParse fails      *)
(* (the source's JSON.parse throws SyntaxError) unless the whole text is   *)
(* one value.                                                              *)
(***************************************************************************)
Fail == [ok |-> FALSE, val |-> Undefined, pos |-> 0]
Ok(v, p) == [ok |-> TRUE, val |-> v, pos |-> p]

RECURSIVE ParseValue(_, _)
RECURSIVE ParseMembers(_, _, _)
RECURSIVE ParseElements(_, _, _)

\* a string literal whose opening quote is at i
ParseString(t, i) ==
    LET close == FindFrom(t, DQ, i + 1) IN
    IF close = 0 THEN Fail
    ELSE Ok(Str(Concat(SubSeq(t, i + 1, close - 1))), close + 1)

\* const name = value; body, with the value computed once
Bind(value, Body(_)) == Body(value)

\* the members of an object after "{" or ",": i is at the key; acc the members read
ParseMembers(t, i, acc) ==
    LET k == SkipWS(t, i) IN
    IF k > Len(t) \/ t[k] # DQ THEN Fail
    ELSE
      LET key == ParseString(t, k) IN
      IF ~key.ok THEN Fail
      ELSE
        LET c == SkipWS(t, key.pos) IN
        IF c > Len(t) \/ t[c] # ":" THEN Fail
        ELSE
          LET v == ParseValue(t, c + 1) IN
          IF ~v.ok THEN Fail
          ELSE
            LET name == key.val.str
                \* a repeated key keeps the last value
                acc2 == [x \in DOMAIN acc \cup {name} |->
                            IF x = name THEN v.val ELSE acc[x]]
                n == SkipWS(t, v.pos)
            IN
            IF n > Len(t) THEN Fail
            ELSE IF t[n] = "}" THEN Ok(Obj(acc2), n + 1)
            ELSE IF t[n] = "," THEN ParseMembers(t, n + 1, acc2)
            ELSE Fail

\* the elements of an array after "[" or ",": i is at the element
ParseElements(t, i, acc) ==
    LET v == ParseValue(t, i) IN
    IF ~v.ok THEN Fail
    ELSE
      LET n == SkipWS(t, v.pos) IN
      IF n > Len(t) THEN Fail
      ELSE IF t[n] = "]" THEN Ok(Arr(Append(acc, v.val)), n + 1)
      ELSE IF t[n] = "," THEN ParseElements(t, n + 1, Append(acc, v.val))
      ELSE Fail

ParseValue(t, i) ==
    LET s == SkipWS(t, i) IN
    IF s > Len(t) THEN Fail
    ELSE
      CASE t[s] = "{" ->
             (LET n == SkipWS(t, s + 1) IN
              IF n <= Len(t) /\ t[n] = "}" THEN Ok(Obj(<<>>), n + 1)
              ELSE ParseMembers(t, s + 1, <<>>))
        [] t[s] = "[" ->
             (LET n == SkipWS(t, s + 1) IN
              IF n <= Len(t) /\ t[n] = "]" THEN Ok(Arr(<<>>), n + 1)
              ELSE ParseElements(t, s + 1, <<>>))
        [] t[s] = DQ -> ParseString(t, s)
        [] t[s] = "true" -> Ok(Bool(TRUE), s + 1)
        [] t[s] = "false" -> Ok(Bool(FALSE), s + 1)
        [] t[s] = "null" -> Ok(Null, s + 1)
        [] t[s] \in Numerals -> Ok(Num(NumberOf(t[s])), s + 1)
        [] OTHER -> Fail

\* JSON.parse(text): [ok |-> FALSE] models the SyntaxError
JSONParse(t) ==
    Bind(ParseValue(t, 1), LAMBDA v :
    IF v.ok /\ SkipWS(t, v.pos) = Len(t) + 1 THEN v ELSE Fail)

(***************************************************************************)
(* JSON.stringify(value, null, 2).  Properties are written in the order    *)
(* KeyOrder lists them; a property whose value is undefined is left out,   *)
(* an undefined array element is written as null.  The indentation is      *)
(* kept as one line break after the opening brace of the outermost value;  *)
(* JSONParse skips whitespace wherever it stands.                          *)
(***************************************************************************)
KeyOrder ==
    <<"version", "exportedAt", "map", "id", "name", "type", "roomType",
      "description", "size", "layout", "gridSize", "rows", "cols", "row", "col",
      "corridors", "position", "rooms", "exits", "direction", "destination",
      "furniture", "createdAt", "updatedAt", "a">>

KeysOf(o) == SelectSeq(KeyOrder, LAMBDA k : k \in DOMAIN o.obj /\ o.obj[k] # Undefined)

RECURSIVE Stringify(_)
RECURSIVE StringifyMembers(_, _)
RECURSIVE StringifyElements(_)

StringifyMembers(o, keys) ==
    IF keys = <<>> THEN <<>>
    ELSE <<DQ, Head(keys), DQ, ":">> \o Stringify(o.obj[Head(keys)])
         \o (IF Len(keys) > 1 THEN <<",">> ELSE <<>>)
         \o StringifyMembers(o, Tail(keys))

StringifyElements(s) ==
    IF s = <<>> THEN <<>>
    ELSE Stringify(IF Head(s) = Undefined THEN Null ELSE Head(s))
         \o (IF Len(s) > 1 THEN <<",">> ELSE <<>>)
         \o StringifyElements(Tail(s))

Stringify(v) ==
    CASE IsStr(v) -> IF v.str = "" THEN <<DQ, DQ>> ELSE <<DQ, v.str, DQ>>
      [] IsNum(v) -> <<Numeral(v.num)>>
      [] DOMAIN v = {"bool"} -> IF v.bool THEN <<"true">> ELSE <<"false">>
      [] v = Null -> <<"null">>
      [] IsArr(v) -> IF v.arr = <<>> THEN <<"[", "]">>
                     ELSE <<"[">> \o StringifyElements(v.arr) \o <<"]">>
      [] IsObj(v) -> IF KeysOf(v) = <<>> THEN <<"{", "}">>
                     ELSE <<"{">> \o StringifyMembers(v, KeysOf(v)) \o <<"}">>


(***************************************************************************)
(* mapPrompts.js: parseMapJSON and repairMapJSON.                          *)
(***************************************************************************)

\* response.match(/```(?:json)?\s*([\s\S]*?)```/): the trimmed group 1,
\* [found |-> FALSE] when the response holds no pair of fences
CodeBlockMatch(response) ==
    LET open == FindFrom(response, FENCE, 1)
        close == IF open = 0 THEN 0 ELSE FindFrom(response, FENCE, open + 1)
        afterTag == IF open # 0 /\ open + 1 <= Len(response) /\ response[open + 1] = "json"
                    THEN open + 2 ELSE open + 1
    IN IF close = 0 THEN [found |-> FALSE, text |-> <<>>]
       ELSE [found |-> TRUE, text |-> Trim(SubSeq(response, afterTag, close - 1))]

\* response.match(/\{[\s\S]*\}/): greedy, from the first { to the last }
JsonMatch(response) ==
    LET first == FindFrom(response, "{", 1)
        last == FindLast(response, "}", Len(response))
    IN IF first = 0 \/ last < first THEN [found |-> FALSE, text |-> <<>>]
       ELSE [found |-> TRUE, text |-> SubSeq(response, first, last)]

\* `room_${index}`, `Room ${index + 1}`
RoomId(index) == Str("room_" \o ToString(index))
RoomName(index) == Str("Room " \o ToString(index + 1))

\* the callback of data.rooms.map: index counts from 0
CoerceRoom(room, index) ==
    Obj([id |-> Or(Get(room, "id"), RoomId(index)),
         name |-> Or(Get(room, "name"), RoomName(index)),
         roomType |-> Or(Get(room, "roomType"), Str("default")),
         description |-> Or(Get(room, "description"), Str("")),
         position |-> Or(Get(room, "position"),
                         Obj([row |-> Num(index \div 5), col |-> Num(index % 5)])),
         exits |-> Or(Get(room, "exits"), Arr(<<>>)),
         furniture |-> Or(Get(room, "furniture"), Arr(<<>>))])

DefaultLayout ==
    Obj([gridSize |-> Obj([rows |-> Num(5), cols |-> Num(5)]), corridors |-> Arr(<<>>)])

\* the text handed to JSON.parse: the response, the trimmed content of a code
\* block when there is one, the first { to the last } of the response when
\* there is one
JsonStr(response) ==
    IF JsonMatch(response).found THEN JsonMatch(response).text
    ELSE IF CodeBlockMatch(response).found THEN CodeBlockMatch(response).text
    ELSE response

\* data.rooms = data.rooms.map(...); if (!data.layout) data.layout = {...}
CoerceData(data) ==
    Bind(With(data, "rooms",
              Arr([i \in 1..Len(Get(data, "rooms").arr) |->
                      CoerceRoom(Get(data, "rooms").arr[i], i - 1)])),
         LAMBDA withRooms :
            IF Truthy(Get(withRooms, "layout")) THEN withRooms
            ELSE With(withRooms, "layout", DefaultLayout))

\* the try block of parseMapJSON from the validation on, for the result of
\* JSON.parse: [threw |-> TRUE] when it leaves by an exception
ValidateData(parsed) ==
    IF ~parsed.ok THEN [threw |-> TRUE, val |-> Null]
    ELSE IF ReadThrows(parsed.val) THEN [threw |-> TRUE, val |-> Null]
    ELSE IF ~Truthy(Get(parsed.val, "rooms")) \/ ~IsArr(Get(parsed.val, "rooms"))
         THEN [threw |-> FALSE, val |-> Null]
    ELSE IF \E i \in 1..Len(Get(parsed.val, "rooms").arr) :
                ReadThrows(Get(parsed.val, "rooms").arr[i])
         THEN [threw |-> TRUE, val |-> Null]
    ELSE [threw |-> FALSE, val |-> CoerceData(parsed.val)]

\* the try block of parseMapJSON
StrictParse(response) == ValidateData(JSONParse(JsonStr(response)))

RECURSIVE DropTrailingCommas(_, _)
\* json.replace(/,(\s*[\]\}])/g, '$1') from index i on
DropTrailingCommas(t, i) ==
    IF i > Len(t) THEN <<>>
    ELSE LET n == SkipWS(t, i + 1) IN
         IF t[i] = "," /\ n <= Len(t) /\ t[n] \in {"]", "}"}
         THEN DropTrailingCommas(t, i + 1)
         ELSE <<t[i]>> \o DropTrailingCommas(t, i + 1)

RECURSIVE QuoteKeys(_, _)
\* json.replace(/(\{|\,)\s*(\w+)\s*:/g, '$1"$2":') from index i on
QuoteKeys(t, i) ==
    IF i > Len(t) THEN <<>>
    ELSE LET w == SkipWS(t, i + 1)
             c == SkipWS(t, w + 1)
         IN IF /\ t[i] \in {"{", ","}
               /\ w <= Len(t) /\ IsWord(t[w])
               /\ c <= Len(t) /\ t[c] = ":"
            THEN <<t[i], DQ, t[w], DQ, ":">> \o QuoteKeys(t, c + 1)
            ELSE <<t[i]>> \o QuoteKeys(t, i + 1)

repairMapJSON(response) ==
    LET firstBrace == FindFrom(response, "{", 1)
        json1 == IF firstBrace > 1 THEN SubSeq(response, firstBrace, Len(response))
                 ELSE response
        lastBrace == FindLast(json1, "}", Len(json1))
        json2 == IF lastBrace >= 1 /\ lastBrace < Len(json1)
                 THEN SubSeq(json1, 1, lastBrace) ELSE json1
    IN QuoteKeys(DropTrailingCommas(json2, 1), 1)

\* a catch block without the final return null
RepairParseFallingThrough(response) ==
    Bind(repairMapJSON(response), LAMBDA repairedResponse :
    IF repairedResponse = <<>> THEN Undefined
    ELSE Bind(JSONParse(repairedResponse), LAMBDA parsed :
         IF parsed.ok THEN parsed.val ELSE Undefined))

\* the catch block of parseMapJSON
RepairParse(response) ==
    Bind(repairMapJSON(response), LAMBDA repairedResponse :
    IF repairedResponse = <<>> THEN Null
    ELSE Bind(JSONParse(repairedResponse), LAMBDA parsed :
         IF parsed.ok THEN parsed.val ELSE Null))

\* parseMapJSON(response): the parsed map data, Null for the source's null
parseMapJSON(response) ==
    Bind(StrictParse(response), LAMBDA strict :
    IF strict.threw THEN RepairParse(response) ELSE strict.val)

\* whether parseMapJSON(response) took the repair path
EnteredRepair(response) == StrictParse(response).threw


(***************************************************************************)
(* mapPrompts.js: buildLocationContextForInjection.                        *)
(***************************************************************************)
RECURSIVE StringOf(_)
RECURSIVE Join(_, _)

\* String(v), as a template literal and Array.prototype.join convert a value
StringOf(v) ==
    CASE IsStr(v) -> v.str
      [] IsNum(v) -> ToString(v.num)
      [] v = Bool(TRUE) -> "true"
      [] v = Bool(FALSE) -> "false"
      [] v = Null -> "null"
      [] v = Undefined -> "undefined"
      [] IsArr(v) -> Join(v.arr, ",")
      [] OTHER -> "[object Object]"

\* vals.join(sep): null and undefined elements read as the empty string
Join(vals, sep) ==
    IF vals = <<>> THEN ""
    ELSE (IF Head(vals) \in {Null, Undefined} THEN "" ELSE StringOf(Head(vals)))
         \o (IF Len(vals) > 1 THEN sep \o Join(Tail(vals), sep) ELSE "")

\* a function's result: the string returned, or that it left by a TypeError
Returned(text) == [threw |-> FALSE, text |-> text]
Thrown == [threw |-> TRUE, text |-> ""]

\* one part of the context after another
Then(a, b) ==
    IF a.threw \/ b.threw THEN Thrown ELSE Returned(a.text \o b.text)

RECURSIVE FindByIdFrom(_, _, _)
\* arr.find(x => x.id === id) from index i on: the index found (0 for undefined);
\* reading .id of a null or undefined element throws
FindByIdFrom(arr, id, i) ==
    IF i > Len(arr) THEN [threw |-> FALSE, index |-> 0]
    ELSE IF ReadThrows(arr[i]) THEN [threw |-> TRUE, index |-> 0]
    ELSE IF Get(arr[i], "id") = id THEN [threw |-> FALSE, index |-> i]
    ELSE FindByIdFrom(arr, id, i + 1)

\* list.map(x => x[key]).join(', ') inside prefix and ".\n"; nothing for a list
\* that is missing or empty; .map is no function of a string
NamedList(prefix, list, key) ==
    IF IsStr(list) /\ list.str # "" THEN Thrown
    ELSE IF ~IsArr(list) \/ list.arr = <<>> THEN Returned("")
    ELSE IF \E i \in 1..Len(list.arr) : ReadThrows(list.arr[i]) THEN Thrown
    ELSE Returned(prefix
                  \o Join([i \in 1..Len(list.arr) |-> Get(list.arr[i], key)], ", ")
                  \o ".\n")

RECURSIVE SetToSeq(_)
\* Object.entries(o) lists the keys in insertion order, which the model does not
\* keep: the keys in one fixed order
SetToSeq(S) ==
    IF S = {} THEN <<>>
    ELSE LET x == CHOOSE x \in S : TRUE IN <<x>> \o SetToSeq(S \ {x})

\* the for loop over Object.entries(locations) and the "Also present" line
OthersHere(locations, characterName, charLocation) ==
    Bind(SelectSeq(SetToSeq(DOMAIN locations.obj), LAMBDA n : n # characterName),
         LAMBDA names :
    IF \E k \in 1..Len(names) : ReadThrows(locations.obj[names[k]]) THEN Thrown
    ELSE Bind(SelectSeq(names, LAMBDA n :
                  /\ Get(locations.obj[n], "mapId") = Get(charLocation, "mapId")
                  /\ Get(locations.obj[n], "roomId") = Get(charLocation, "roomId")),
              LAMBDA othersHere :
         IF othersHere = <<>> THEN Returned("")
         ELSE Returned("Also present: "
                       \o Join([k \in 1..Len(othersHere) |-> Str(othersHere[k])], ", ")
                       \o ".\n")))

\* room.exits.map(e => `${e.direction} to ${e.destination}`) and the "Exits" line
ExitsLine(exits) ==
    IF IsStr(exits) /\ exits.str # "" THEN Thrown
    ELSE IF ~IsArr(exits) \/ exits.arr = <<>> THEN Returned("")
    ELSE IF \E i \in 1..Len(exits.arr) : ReadThrows(exits.arr[i]) THEN Thrown
    ELSE Returned("Exits: "
                  \o Join([i \in 1..Len(exits.arr) |->
                             Str(StringOf(Get(exits.arr[i], "direction")) \o " to "
                                 \o StringOf(Get(exits.arr[i], "destination")))], ", ")
                  \o ".\n")

\* map.rooms.filter(r => r.id !== room.id) and the "Other areas" line
OtherRoomsLine(rooms, room) ==
    IF \E i \in 1..Len(rooms) : ReadThrows(rooms[i]) THEN Thrown
    ELSE NamedList("Other areas in this location: ",
                   Arr(SelectSeq(rooms, LAMBDA r : Get(r, "id") # Get(room, "id"))),
                   "name")

\* a context that lists the exits at every depth
LocationContextWithExits(locations, characterName, charLocation, map, room, depth) ==
    Then(Returned("[Location: " \o StringOf(Get(map, "name")) \o " - "
                  \o StringOf(Get(room, "name")) \o "]\n"
                  \o StringOf(Get(room, "description")) \o "\n"),
    Then(NamedList("Present in the room: ", Get(room, "furniture"), "name"),
    Then(OthersHere(locations, characterName, charLocation),
    Then(ExitsLine(Get(room, "exits")),
         IF depth = Str("full_building")
         THEN OtherRoomsLine(Get(map, "rooms").arr, room) ELSE Returned("")))))

\* the context of a resolved location, built at the given depth
LocationContext(locations, characterName, charLocation, map, room, depth) ==
    Then(Returned("[Location: " \o StringOf(Get(map, "name")) \o " - "
                  \o StringOf(Get(room, "name")) \o "]\n"
                  \o StringOf(Get(room, "description")) \o "\n"),
    Then(NamedList("Present in the room: ", Get(room, "furniture"), "name"),
    Then(OthersHere(locations, characterName, charLocation),
    Then(IF depth \in {Str("adjacent_rooms"), Str("full_building")}
         THEN ExitsLine(Get(room, "exits")) ELSE Returned(""),
         IF depth = Str("full_building")
         THEN OtherRoomsLine(Get(map, "rooms").arr, room) ELSE Returned("")))))

\* a lookup that falls back to the first room of the map when no room has the id
ContextInMapFirstRoom(locations, characterName, charLocation, map, depth) ==
    IF Get(map, "rooms") \in {Null, Undefined} THEN Returned("")
    ELSE IF ~IsArr(Get(map, "rooms")) THEN Thrown
    ELSE Bind(FindByIdFrom(Get(map, "rooms").arr, Get(charLocation, "roomId"), 1),
              LAMBDA room :
         IF room.threw THEN Thrown
         ELSE IF Get(map, "rooms").arr = <<>> THEN Returned("")
         ELSE LocationContext(locations, characterName, charLocation, map,
                              Get(map, "rooms").arr[IF room.index = 0 THEN 1
                                                    ELSE room.index], depth))

\* map.rooms?.find(r => r.id === charLocation.roomId) and what follows it
ContextInMap(locations, characterName, charLocation, map, depth) ==
    IF Get(map, "rooms") \in {Null, Undefined} THEN Returned("")
    ELSE IF ~IsArr(Get(map, "rooms")) THEN Thrown
    ELSE Bind(FindByIdFrom(Get(map, "rooms").arr, Get(charLocation, "roomId"), 1),
              LAMBDA room :
         IF room.threw THEN Thrown
         ELSE IF room.index = 0 THEN Returned("")
         ELSE LocationContext(locations, characterName, charLocation, map,
                              Get(map, "rooms").arr[room.index], depth))

\* buildLocationContextForInjection(mapData, characterName); depth is the value
\* of extensionSettings.mapSettings?.locationContextDepth
buildLocationContextForInjection(mapData, characterName, depth) ==
    IF \/ ~Truthy(mapData)
       \/ ~Truthy(Get(mapData, "maps"))
       \/ Get(mapData, "maps") = Arr(<<>>)
    THEN Returned("")
    ELSE Bind(Or(Get(mapData, "characterLocations"), Obj(<<>>)), LAMBDA locations :
         IF ~Truthy(Get(locations, characterName)) THEN Returned("")
         ELSE IF ~IsArr(Get(mapData, "maps")) THEN Thrown
         ELSE Bind(FindByIdFrom(Get(mapData, "maps").arr,
                                Get(Get(locations, characterName), "mapId"), 1),
                   LAMBDA map :
              IF map.threw THEN Thrown
              ELSE IF map.index = 0 THEN Returned("")
              ELSE ContextInMap(locations, characterName, Get(locations, characterName),
                                Get(mapData, "maps").arr[map.index],
                                Or(depth, Str("current_only")))))


(***************************************************************************)
(* The layout solver, solveRoomLayout.  mapUI.js imports it from           *)
(* mapPrompts.js, which does not hold it: it is modelled from section 4.3  *)
(* of the specification.                                                   *)
(***************************************************************************)

\* String.prototype.toLowerCase over the names the model uses
Lower(s) ==
    CASE s = "Hall" -> "hall"
      [] s = "HALL" -> "hall"
      [] s = "hall" -> "hall"
      [] s = "Kitchen" -> "kitchen"
      [] s = "Cellar" -> "cellar"
      [] s = "Attic" -> "attic"
      [] s = "Entrance" -> "entrance"
      [] s = "Front Door" -> "front door"
      [] s = "Tavern" -> "tavern"
      [] s = "Old Tavern" -> "old tavern"
      [] s = "Inn" -> "inn"
      [] s = "Default" -> "default"
      [] s = "Default (1)" -> "default (1)"
      [] s = "Default (2)" -> "default (2)"
      [] s = "Default (3)" -> "default (3)"
      [] OTHER -> s

\* lower-case names that contain "entrance", "entry" or "front"
HasStartMarker(s) == Lower(s) \in {"entrance", "entry", "front", "front door", "entryway"}

MaxSide == 4
SizeText(w, h) == ToString(w) \o "x" \o ToString(h)

\* step 1: "WxH" to <<width, height>>; a missing or malformed size is 2x2
ParseSize(size) ==
    IF IsStr(size) /\ \E w, h \in 1..MaxSide : SizeText(w, h) = size.str
    THEN CHOOSE wh \in (1..MaxSide) \X (1..MaxSide) : SizeText(wh[1], wh[2]) = size.str
    ELSE <<2, 2>>

RECURSIVE TotalArea(_)
TotalArea(rooms) ==
    IF rooms = <<>> THEN 0
    ELSE LET wh == ParseSize(Get(Head(rooms), "size")) IN wh[1] * wh[2] + TotalArea(Tail(rooms))

MinGrid == 7
MaxGrid == 12
\* step 2: max(7, ceil(sqrt(1.5 * area)))
GridDimension(rooms) ==
    Bind(TotalArea(rooms), LAMBDA area :
    Bind(CHOOSE g \in 0..MaxGrid :
            /\ 2 * g * g >= 3 * area
            /\ \A k \in 0..MaxGrid : 2 * k * k >= 3 * area => k >= g,
         LAMBDA root : IF root > MinGrid THEN root ELSE MinGrid))

\* step 3
CorridorRow(g) == g \div 2

\* a corridor laid along the top row, where the fallback places rooms
CorridorsOnTopRow(g) == [c \in 1..(g - 2) |-> [row |-> 0, col |-> c]]

Corridors(g) == [c \in 1..(g - 2) |-> [row |-> CorridorRow(g), col |-> c]]

RECURSIVE SlotsFrom(_, _)
\* step 4: the slots of columns col, col+2, ... < g-2, above then below
SlotsFrom(g, col) ==
    IF col >= g - 2 THEN <<>>
    ELSE <<[row |-> CorridorRow(g) - 2, col |-> col],
           [row |-> CorridorRow(g) + 2, col |-> col]>> \o SlotsFrom(g, col + 2)
Slots(g) == SlotsFrom(g, 1)

NameOf(room) == Get(room, "name").str

\* the index of the first room named like name (case-insensitive), 0 when none
ResolveRoom(rooms, name) ==
    IF \E i \in 1..Len(rooms) : Lower(NameOf(rooms[i])) = Lower(name)
    THEN CHOOSE i \in 1..Len(rooms) :
            /\ Lower(NameOf(rooms[i])) = Lower(name)
            /\ \A j \in 1..(i - 1) : Lower(NameOf(rooms[j])) # Lower(name)
    ELSE 0

\* the destination an exit entry names: the entry itself, or its destination
ExitName(e) ==
    IF IsStr(e) THEN e.str
    ELSE IF IsStr(Get(e, "destination")) THEN Get(e, "destination").str
    ELSE ""

ExitsOf(room) == IF IsArr(Get(room, "exits")) THEN Get(room, "exits").arr ELSE <<>>

\* step 5
StartRoom(rooms) ==
    IF \E i \in 1..Len(rooms) : HasStartMarker(NameOf(rooms[i]))
    THEN CHOOSE i \in 1..Len(rooms) :
            /\ HasStartMarker(NameOf(rooms[i]))
            /\ \A j \in 1..(i - 1) : ~HasStartMarker(NameOf(rooms[j]))
    ELSE 1

\* the rooms the exits of room r resolve to, in exit order
Neighbours(rooms, r) ==
    LET ex == ExitsOf(rooms[r])
        targets == [k \in 1..Len(ex) |-> ResolveRoom(rooms, ExitName(ex[k]))]
    IN SelectSeq(targets, LAMBDA j : j # 0)

RECURSIVE Bfs(_, _, _)
\* step 6: the rooms in the order the traversal visits them
Bfs(rooms, queue, visited) ==
    IF queue = <<>> THEN visited
    ELSE LET r == Head(queue) IN
         IF \E k \in 1..Len(visited) : visited[k] = r
         THEN Bfs(rooms, Tail(queue), visited)
         ELSE LET seen == Append(visited, r)
                  next == SelectSeq(Neighbours(rooms, r),
                                    LAMBDA j : \A k \in 1..Len(seen) : seen[k] # j)
              IN Bfs(rooms, Tail(queue) \o next, seen)

\* the first n entries of s, all of s when it has fewer
Take(s, n) == SubSeq(s, 1, IF Len(s) < n THEN Len(s) ELSE n)

\* a placement in list order, without the traversal
PlacementOrderOfList(rooms) == [i \in 1..Len(rooms) |-> i]

\* steps 6 and 7: the rooms in the order they are placed: the visited rooms
\* that found a slot, then every other room in list order
PlacementOrder(rooms) ==
    Bind(Take(Bfs(rooms, <<StartRoom(rooms)>>, <<>>), Len(Slots(GridDimension(rooms)))),
         LAMBDA inSlots :
            inSlots \o SelectSeq([i \in 1..Len(rooms) |-> i],
                                 LAMBDA i : \A k \in 1..Len(inSlots) : inSlots[k] # i))

\* a fallback that forgets to wrap the column
PositionOfRankUnwrapped(g, k) ==
    IF k <= Len(Slots(g)) THEN Slots(g)[k]
    ELSE [row |-> 0, col |-> k - 1]

\* the position of the k-th room placed: a slot, or row 0 once the slots are used up
PositionOfRank(g, k) ==
    IF k <= Len(Slots(g)) THEN Slots(g)[k]
    ELSE [row |-> 0, col |-> (k - 1) % g]

\* the position of room i
PositionOf(rooms, i) ==
    Bind(PlacementOrder(rooms), LAMBDA order :
    PositionOfRank(GridDimension(rooms), CHOOSE k \in 1..Len(order) : order[k] = i))

Abs(x) == IF x < 0 THEN -x ELSE x

\* step 8 without the sign of the difference: always south, always east
DirectionUnsigned(from, to) ==
    LET dRow == to.row - from.row
        dCol == to.col - from.col
    IN IF Abs(dRow) > Abs(dCol) THEN "south"
       ELSE IF dCol # 0 THEN "east"
       ELSE "corridor"

\* step 8
Direction(from, to) ==
    LET dRow == to.row - from.row
        dCol == to.col - from.col
    IN IF Abs(dRow) > Abs(dCol) THEN (IF dRow > 0 THEN "south" ELSE "north")
       ELSE IF dCol # 0 THEN (IF dCol > 0 THEN "east" ELSE "west")
       ELSE "corridor"

SolvedExit(rooms, i, e) ==
    LET target == ResolveRoom(rooms, ExitName(e)) IN
    IF target = 0
    THEN Obj([direction |-> Str("corridor"), destination |-> Str(ExitName(e))])
    ELSE Obj([direction |-> Str(Direction(PositionOf(rooms, i), PositionOf(rooms, target))),
              destination |-> Get(rooms[target], "name")])

PositionValue(p) == Obj([row |-> Num(p.row), col |-> Num(p.col)])

SolvedRoom(rooms, i) ==
    LET ex == ExitsOf(rooms[i]) IN
    With(With(rooms[i], "position", PositionValue(PositionOf(rooms, i))),
         "exits", Arr([k \in 1..Len(ex) |-> SolvedExit(rooms, i, ex[k])]))

\* the solver reads room.name of every entry: it throws on a list that is no
\* array or holds an entry without a name
SolverThrows(rooms) ==
    \/ ~IsArr(rooms)
    \/ \E i \in 1..Len(rooms.arr) : ~IsStr(Get(rooms.arr[i], "name"))

\* the solver without its answer for the empty list: a grid of seven with its corridor
solveRoomLayoutOfAnyList(rooms) ==
    Bind(GridDimension(rooms.arr), LAMBDA g :
    Obj([layout |-> Obj([gridSize |-> Obj([rows |-> Num(g), cols |-> Num(g)]),
                         corridors |-> Arr([c \in 1..(g - 2) |->
                                              PositionValue(Corridors(g)[c])])]),
         rooms |-> Arr([i \in 1..Len(rooms.arr) |-> SolvedRoom(rooms.arr, i)])]))

\* solveRoomLayout(rooms): {layout, rooms}
solveRoomLayout(rooms) ==
    IF rooms.arr = <<>>
    THEN Obj([layout |-> DefaultLayout, rooms |-> Arr(<<>>)])
    ELSE Bind(GridDimension(rooms.arr), LAMBDA g :
         Obj([layout |-> Obj([gridSize |-> Obj([rows |-> Num(g), cols |-> Num(g)]),
                              corridors |-> Arr([c \in 1..(g - 2) |->
                                                   PositionValue(Corridors(g)[c])])]),
              rooms |-> Arr([i \in 1..Len(rooms.arr) |-> SolvedRoom(rooms.arr, i)])]))


(***************************************************************************)
(* mapUI.js: the state of the map modal and of the map collection.         *)
(***************************************************************************)
VARIABLES
    maps,                \* currentMapData.maps: <<[ref, val]>>, ref the object's identity
    activeMapId,         \* currentMapData.activeMapId
    characterLocations,  \* currentMapData.characterLocations
    isGenerating,        \* MapModal.isGenerating
    selectedRoomId,      \* MapModal.selectedRoomId
    pending,             \* the calls of generateQuietPrompt that have not settled
    moveDialog,          \* the move-character dialog and the map its handler captured
    toast,               \* the toastr message of the last handler, if any
    now,                 \* the clock: Date.now() of the last handler that read it
    input,               \* the argument of a function of mapPrompts.js called on its own
    output,              \* what that call returned, NotCalled before it
    presetManager        \* extensionSettings.presetManager of persistence.js

mapVars == <<maps, activeMapId, characterLocations, isGenerating, selectedRoomId,
             pending, moveDialog, toast, now>>
fnVars == <<input, output, presetManager>>
vars == <<mapVars, fnVars>>

NotCalled == [notCalled |-> TRUE]

\* the characters getAvailableCharacters offers; context.name1 is the user
UserName == "User"
Characters == {UserName}

NoToast == [level |-> "none", text |-> ""]
Toast(level, text) == [level |-> level, text |-> text]

\* `map_${Date.now()}_${Math.random().toString(36).substr(2, 9)}` at time t: handlers
\* run at distinct times, the random suffix is left out
NewMapId(t) == Str("map_" \o ToString(t))
\* new Date().toISOString() at time t
IsoTime(t) == Str("T" \o ToString(t))

MapIds == {Get(maps[i].val, "id") : i \in 1..Len(maps)}

\* getMapData(): currentMapData as a value
getMapData ==
    Obj([maps |-> Arr([i \in 1..Len(maps) |-> maps[i].val]),
         activeMapId |-> activeMapId,
         characterLocations |-> characterLocations])

\* maps.find(m => m.id === id): the index of the first such map, 0 when none
FindMap(ms, id) ==
    IF \E i \in 1..Len(ms) : Get(ms[i].val, "id") = id
    THEN CHOOSE i \in 1..Len(ms) :
            /\ Get(ms[i].val, "id") = id
            /\ \A j \in 1..(i - 1) : Get(ms[j].val, "id") # id
    ELSE 0

\* getActiveMap() on the collection ms with active id a: an index of ms, 0 for null
getActiveMap(ms, a) == IF ~Truthy(a) THEN 0 ELSE FindMap(ms, a)

\* map?.rooms?.find(r => r.id === roomId): an index of map.rooms, 0 when none
FindRoom(map, roomId) ==
    LET rooms == Get(map, "rooms") IN
    IF IsArr(rooms) /\ \E i \in 1..Len(rooms.arr) : Get(rooms.arr[i], "id") = roomId
    THEN CHOOSE i \in 1..Len(rooms.arr) :
            /\ Get(rooms.arr[i], "id") = roomId
            /\ \A j \in 1..(i - 1) : Get(rooms.arr[j], "id") # roomId
    ELSE 0

\* the index in maps of the object ref, 0 when the object left the collection
IndexOfRef(ms, ref) ==
    IF \E i \in 1..Len(ms) : ms[i].ref = ref
    THEN CHOOSE i \in 1..Len(ms) : ms[i].ref = ref
    ELSE 0

\* extensionSettings.presetManager as the module creates it; presets holds the
\* entries of the presets object in the order of their keys
NoPresets ==
    [presets |-> <<>>, characterAssociations |-> <<>>,
     activePresetId |-> Null, defaultPresetId |-> Null]

\* currentMapData as the module creates it and a MapModal as constructed
MapInit ==
    /\ maps = <<>>
    /\ activeMapId = Null
    /\ characterLocations = Obj(<<>>)
    /\ isGenerating = FALSE
    /\ selectedRoomId = Null
    /\ pending = <<>>
    /\ moveDialog = [open |-> FALSE, mapId |-> Null]
    /\ toast = NoToast
    /\ now = 0

Init ==
    /\ MapInit
    /\ input = Undefined
    /\ output = NotCalled
    /\ presetManager = NoPresets

(***************************************************************************)
(* Selection.                                                              *)
(***************************************************************************)
\* the ids selectMap is called with: "" (no map), the ids of the collection, a stale id
UnknownMapId == Str("map_0")
SelectableIds == {Str("")} \cup MapIds \cup {UnknownMapId}

selectMap(mapId) ==
    /\ activeMapId' = Or(mapId, Null)
    /\ selectedRoomId' = Null
    /\ toast' = NoToast
    /\ UNCHANGED <<maps, characterLocations, isGenerating, pending,
                   moveDialog, now>>
    /\ UNCHANGED fnVars

\* `${v}` for an id: a string stays, a missing id reads "undefined"
TemplateString(v) == IF IsStr(v) THEN v ELSE Str("undefined")

\* the data-room-id attributes of the grid of the active map
ShownRoomIds ==
    LET a == getActiveMap(maps, activeMapId)
        rooms == IF a = 0 THEN Undefined ELSE Get(maps[a].val, "rooms")
    IN IF IsArr(rooms)
       THEN {TemplateString(Get(rooms.arr[i], "id")) : i \in 1..Len(rooms.arr)}
       ELSE {}

\* getCharactersInRoom(roomId): the names of the characters it returns
getCharactersInRoom(roomId) ==
    {charName \in DOMAIN characterLocations.obj :
        Get(characterLocations.obj[charName], "roomId") = roomId}

showRoomDetails(roomId) ==
    LET a == getActiveMap(maps, activeMapId) IN
    /\ selectedRoomId' = IF a # 0 /\ FindRoom(maps[a].val, roomId) # 0
                         THEN roomId ELSE selectedRoomId
    /\ toast' = NoToast
    /\ UNCHANGED <<maps, activeMapId, characterLocations, isGenerating, pending,
                   moveDialog, now>>
    /\ UNCHANGED fnVars

closeRoomDetails ==
    /\ selectedRoomId' = Null
    /\ toast' = NoToast
    /\ UNCHANGED <<maps, activeMapId, characterLocations, isGenerating, pending,
                   moveDialog, now>>
    /\ UNCHANGED fnVars


(***************************************************************************)
(* Generation: regenerateMap and regenerateRoomFurniture up to their       *)
(* await of generateQuietPrompt, and their resumption when the call        *)
(* settles.  A pending call is [kind, map, room, roomId]: the map object   *)
(* and (for furniture) the room object the handler holds, as its index in  *)
(* the map's rooms, with its id.                                           *)
(***************************************************************************)
Quoted(k) == <<DQ, k, DQ>>

\* what the service answers: nothing, prose, clean JSON, and JSON that needs the repair
RespEmpty == <<>>
RespNoJson == <<"no", " ", "json", " ", "here">>
RespClean ==
    <<"{">> \o Quoted("rooms") \o <<":", "[", "{">> \o Quoted("name") \o <<":">>
    \o Quoted("Hall") \o <<",">> \o Quoted("exits") \o <<":", "[">> \o Quoted("Kitchen")
    \o <<"]", "}", "]", "}">>
RespBareKeys ==
    <<"{", "rooms", ":", "[", "{", "name", ":">> \o Quoted("Cellar") \o <<",", "}", "]", "}">>
RespNoRooms == <<"{", "a", ":", "1", "}">>
RespNamelessRoom ==
    <<"{", "rooms", ":", "[", "{", "size", ":">> \o Quoted("3x3") \o <<"}", "]", "}">>
Responses == {RespEmpty, RespNoJson, RespClean, RespBareKeys, RespNoRooms, RespNamelessRoom}

\* how a call of generateQuietPrompt settles: it rejects, or resolves to a response
MapOutcomes ==
    {[threw |-> TRUE, response |-> <<>>]}
    \cup {[threw |-> FALSE, response |-> r] : r \in Responses}

\* regenerateMap() without the isGenerating gate: every request calls the service
RegenerateMapRequestUngated(ms, a, generating, calls) ==
    LET i == getActiveMap(ms, a) IN
    IF i = 0
    THEN [isGenerating |-> generating, pending |-> calls,
          toast |-> Toast("warning", "No map selected")]
    ELSE [isGenerating |-> TRUE,
          pending |-> Append(calls, [kind |-> "map", map |-> ms[i].ref, room |-> 0,
                                  roomId |-> Undefined]),
          toast |-> NoToast]

\* regenerateMap() with the gate inside the try block: the rejected request runs
\* the finally block and clears isGenerating
RegenerateMapRequestClearing(ms, a, generating, calls) ==
    LET i == getActiveMap(ms, a) IN
    IF i = 0
    THEN [isGenerating |-> generating, pending |-> calls,
          toast |-> Toast("warning", "No map selected")]
    ELSE IF generating
    THEN [isGenerating |-> FALSE, pending |-> calls,
          toast |-> Toast("warning", "Generation already in progress")]
    ELSE [isGenerating |-> TRUE,
          pending |-> Append(calls, [kind |-> "map", map |-> ms[i].ref, room |-> 0,
                                  roomId |-> Undefined]),
          toast |-> NoToast]

\* regenerateMap() up to the await, on collection ms with active id a
RegenerateMapRequest(ms, a, generating, calls) ==
    LET i == getActiveMap(ms, a) IN
    IF i = 0
    THEN [isGenerating |-> generating, pending |-> calls,
          toast |-> Toast("warning", "No map selected")]
    ELSE IF generating
    THEN [isGenerating |-> generating, pending |-> calls,
          toast |-> Toast("warning", "Generation already in progress")]
    ELSE [isGenerating |-> TRUE,
          pending |-> Append(calls, [kind |-> "map", map |-> ms[i].ref, room |-> 0,
                                  roomId |-> Undefined]),
          toast |-> NoToast]

regenerateMap ==
    LET r == RegenerateMapRequest(maps, activeMapId, isGenerating, pending) IN
    /\ isGenerating' = r.isGenerating
    /\ pending' = r.pending
    /\ toast' = r.toast
    /\ UNCHANGED <<maps, activeMapId, characterLocations, selectedRoomId,
                   moveDialog, now>>
    /\ UNCHANGED fnVars

Remove(seq, i) == SubSeq(seq, 1, i - 1) \o SubSeq(seq, i + 1, Len(seq))

\* what the try block of regenerateMap does with the settled call: "failed" (the
\* catch block), "empty", "invalid", or "ok" with the solved layout
MapGenerationResult(outcome) ==
    IF outcome.threw THEN [kind |-> "failed", data |-> Null]
    ELSE IF outcome.response = <<>> THEN [kind |-> "empty", data |-> Null]
    ELSE Bind(parseMapJSON(outcome.response), LAMBDA parsedData :
         IF ~Truthy(parsedData) \/ ~Truthy(Get(parsedData, "rooms"))
         THEN [kind |-> "invalid", data |-> Null]
         ELSE IF SolverThrows(Get(parsedData, "rooms"))
         THEN [kind |-> "failed", data |-> Null]
         ELSE [kind |-> "ok", data |-> solveRoomLayout(Get(parsedData, "rooms"))])

\* the layout written to whichever map is active when the call settles
WriteLayoutToActiveMap(ms, ref, layoutData, t) ==
    [i \in 1..Len(ms) |->
        IF i = getActiveMap(ms, activeMapId)
        THEN [ref |-> ms[i].ref,
              val |-> With(With(With(ms[i].val, "layout", Get(layoutData, "layout")),
                                "rooms", Get(layoutData, "rooms")),
                           "updatedAt", IsoTime(t))]
        ELSE ms[i]]

\* map.layout = ...; map.rooms = ...; map.updatedAt = ... on the object ref
WriteLayout(ms, ref, layoutData, t) ==
    [i \in 1..Len(ms) |->
        IF ms[i].ref = ref
        THEN [ref |-> ref,
              val |-> With(With(With(ms[i].val, "layout", Get(layoutData, "layout")),
                                "rooms", Get(layoutData, "rooms")),
                           "updatedAt", IsoTime(t))]
        ELSE ms[i]]

\* the result for each outcome
MapGenerationResults == [o \in MapOutcomes |-> MapGenerationResult(o)]

\* regenerateMap() resetting the target map to the default layout when the
\* generation fails
ApplyMapResultResetting(ref, result) ==
    IF result.kind = "ok"
    THEN /\ now < MaxClock
         /\ now' = now + 1
         /\ maps' = WriteLayout(maps, ref, result.data, now')
         /\ toast' = Toast("success", "generated successfully")
    ELSE /\ UNCHANGED now
         /\ maps' = WriteLayout(maps, ref,
                                Obj([layout |-> DefaultLayout, rooms |-> Arr(<<>>)]), now)
         /\ toast' = CASE result.kind = "empty" -> Toast("error", "No response from AI")
                       [] result.kind = "invalid" -> Toast("error", "Invalid map data returned")
                       [] OTHER -> Toast("error", "Failed to generate map")

\* the try and catch blocks of regenerateMap() after the await, for the call's
\* target map and the result of the generation
ApplyMapResult(ref, result) ==
    IF result.kind = "ok"
    THEN /\ now < MaxClock
         /\ now' = now + 1
         /\ maps' = WriteLayout(maps, ref, result.data, now')
         /\ toast' = Toast("success", "generated successfully")
    ELSE /\ UNCHANGED <<maps, now>>
         /\ toast' = CASE result.kind = "empty" -> Toast("error", "No response from AI")
                       [] result.kind = "invalid" -> Toast("error", "Invalid map data returned")
                       [] OTHER -> Toast("error", "Failed to generate map")

\* regenerateMap() whose early returns skip the finally block: the gate opens
\* only after a generation that succeeded or threw
regenerateMapSettledWithoutFinally(i, outcome) ==
    /\ pending[i].kind = "map"
    /\ pending' = Remove(pending, i)
    /\ isGenerating' = (MapGenerationResults[outcome].kind \in {"empty", "invalid"})
    /\ ApplyMapResult(pending[i].map, MapGenerationResults[outcome])
    /\ UNCHANGED <<activeMapId, characterLocations, selectedRoomId,
                   moveDialog>>
    /\ UNCHANGED fnVars

\* regenerateMap() from the await on, for the pending call i
regenerateMapSettled(i, outcome) ==
    /\ pending[i].kind = "map"
    /\ pending' = Remove(pending, i)
    /\ isGenerating' = FALSE
    /\ ApplyMapResult(pending[i].map, MapGenerationResults[outcome])
    /\ UNCHANGED <<activeMapId, characterLocations, selectedRoomId,
                   moveDialog>>
    /\ UNCHANGED fnVars


\* parseFurnitureJSON(response), which mapPrompts.js does not hold: the furniture
\* array it returns is part of the outcome (null, empty, or a list of items)
FurnitureOutcomes ==
    {[threw |-> TRUE, response |-> <<>>, furniture |-> Null],
     [threw |-> FALSE, response |-> RespEmpty, furniture |-> Null],
     [threw |-> FALSE, response |-> RespNoJson, furniture |-> Null],
     [threw |-> FALSE, response |-> RespNoJson, furniture |-> Arr(<<>>)],
     [threw |-> FALSE, response |-> RespClean,
      furniture |-> Arr(<<Obj([name |-> Str("Chair")])>>)]}

\* regenerateRoomFurniture() up to the await
regenerateRoomFurniture ==
    LET a == getActiveMap(maps, activeMapId)
        room == IF a = 0 THEN 0 ELSE FindRoom(maps[a].val, selectedRoomId)
    IN
    /\ IF room = 0
       THEN /\ toast' = Toast("warning", "No room selected")
            /\ UNCHANGED <<isGenerating, pending>>
       ELSE IF isGenerating
       THEN /\ toast' = Toast("warning", "Generation already in progress")
            /\ UNCHANGED <<isGenerating, pending>>
       ELSE /\ isGenerating' = TRUE
            /\ pending' = Append(pending, [kind |-> "furniture", map |-> maps[a].ref,
                                           room |-> room, roomId |-> selectedRoomId])
            /\ toast' = NoToast
    /\ UNCHANGED <<maps, activeMapId, characterLocations, selectedRoomId,
                   moveDialog, now>>
    /\ UNCHANGED fnVars

\* room.furniture = ...; map.updatedAt = ... on the object ref and on its room
\* call.room, when that room object is still among the map's rooms
WriteFurniture(ms, call, furniture, t) ==
    [i \in 1..Len(ms) |->
        IF ms[i].ref = call.map
        THEN LET rooms == Get(ms[i].val, "rooms").arr
                 rooms2 == [j \in 1..Len(rooms) |->
                               IF j = call.room /\ Get(rooms[j], "id") = call.roomId
                               THEN With(rooms[j], "furniture", furniture)
                               ELSE rooms[j]]
             IN [ref |-> ms[i].ref,
                 val |-> With(With(ms[i].val, "rooms", Arr(rooms2)), "updatedAt", IsoTime(t))]
        ELSE ms[i]]

\* regenerateRoomFurniture() from the await on, for the pending call i
regenerateRoomFurnitureSettled(i, outcome) ==
    LET call == pending[i]
        valid == ~outcome.threw /\ outcome.response # <<>>
                 /\ IsArr(outcome.furniture) /\ Len(outcome.furniture.arr) > 0
        a == getActiveMap(maps', activeMapId)
    IN
    /\ call.kind = "furniture"
    /\ pending' = Remove(pending, i)
    /\ isGenerating' = FALSE
    /\ IF valid
       THEN /\ now < MaxClock
            /\ now' = now + 1
            /\ maps' = WriteFurniture(maps, call, outcome.furniture, now')
            \* this.showRoomDetails(room.id)
            /\ selectedRoomId' = IF a # 0 /\ FindRoom(maps'[a].val, call.roomId) # 0
                                 THEN call.roomId ELSE selectedRoomId
            /\ toast' = Toast("success", "Furniture regenerated!")
       ELSE /\ UNCHANGED <<maps, now, selectedRoomId>>
            /\ toast' = IF outcome.threw THEN Toast("error", "Failed to regenerate furniture")
                        ELSE IF outcome.response = <<>> THEN Toast("error", "No response from AI")
                        ELSE Toast("error", "Invalid furniture data")
    /\ UNCHANGED <<activeMapId, characterLocations, moveDialog>>
    /\ UNCHANGED fnVars

(***************************************************************************)
(* Creating and deleting maps.                                             *)
(***************************************************************************)
MapNames == {"", "Tavern"}
MapTypes == {"location"}

\* a new map that starts with a placeholder room
NewMapWithRoom(name, type, description, t) ==
    Obj([id |-> NewMapId(t), name |-> Str(name), type |-> Str(type),
         description |-> Str(description), layout |-> Null,
         rooms |-> Arr(<<Obj([id |-> RoomId(0), name |-> RoomName(0)])>>),
         createdAt |-> IsoTime(t), updatedAt |-> IsoTime(t)])

\* the newMap literal of the confirm handler, created at time t
NewMap(name, type, description, t) ==
    Obj([id |-> NewMapId(t), name |-> Str(name), type |-> Str(type),
         description |-> Str(description), layout |-> Null, rooms |-> Arr(<<>>),
         createdAt |-> IsoTime(t), updatedAt |-> IsoTime(t)])

\* showCreateMapDialog(): the click handler of #create-map-confirm, with the values
\* of the dialog's fields (the dialog itself holds no state of the collection)
createMapConfirm(name, type) ==
    /\ IF name = ""
       THEN /\ toast' = Toast("warning", "Please enter a map name")
            /\ UNCHANGED <<maps, activeMapId, isGenerating, pending, now>>
       ELSE /\ now < MaxClock
            /\ Len(maps) < MaxMaps
            /\ now' = now + 1
            /\ maps' = Append(maps, [ref |-> now', val |-> NewMap(name, type, "", now')])
            /\ activeMapId' = Get(maps'[Len(maps')].val, "id")
            \* await this.regenerateMap()
            /\ LET r == RegenerateMapRequest(maps', activeMapId', isGenerating, pending) IN
               /\ isGenerating' = r.isGenerating
               /\ pending' = r.pending
               /\ toast' = r.toast
    /\ UNCHANGED <<characterLocations, selectedRoomId, moveDialog>>
    /\ UNCHANGED fnVars

\* deleteActiveMap() without the loop over characterLocations
PurgeNothing(locations, id) == locations

\* characterLocations without the entries whose mapId is id
PurgeLocations(locations, id) ==
    Obj([c \in {c \in DOMAIN locations.obj : Get(locations.obj[c], "mapId") # id}
            |-> locations.obj[c]])

\* deleteActiveMap(); confirmed is the answer to confirm()
deleteActiveMap(confirmed) ==
    LET i == getActiveMap(maps, activeMapId)
        id == Get(maps[i].val, "id")
    IN
    IF i = 0
    THEN /\ toast' = Toast("warning", "No map selected")
         /\ UNCHANGED <<maps, activeMapId, characterLocations, isGenerating, selectedRoomId,
                        pending, moveDialog, now,
                        fnVars>>
    ELSE IF ~confirmed
    THEN /\ toast' = NoToast
         /\ UNCHANGED <<maps, activeMapId, characterLocations, isGenerating, selectedRoomId,
                        pending, moveDialog, now,
                        fnVars>>
    ELSE /\ maps' = SelectSeq(maps, LAMBDA m : Get(m.val, "id") # id)
         /\ characterLocations' = PurgeLocations(characterLocations, id)
         /\ activeMapId' = Null
         /\ selectedRoomId' = Null
         /\ toast' = Toast("success", "deleted")
         /\ UNCHANGED <<isGenerating, pending, moveDialog, now,
                        fnVars>>


(***************************************************************************)
(* Character locations.                                                    *)
(***************************************************************************)
showMoveCharacterDialog ==
    LET a == getActiveMap(maps, activeMapId)
        room == IF a = 0 THEN 0 ELSE FindRoom(maps[a].val, selectedRoomId)
    IN
    /\ ~moveDialog.open
    /\ IF ~Truthy(selectedRoomId)
       THEN /\ toast' = Toast("warning", "No room selected")
            /\ UNCHANGED moveDialog
       ELSE IF room = 0
       THEN /\ toast' = NoToast
            /\ UNCHANGED moveDialog
       ELSE /\ toast' = NoToast
            /\ moveDialog' = [open |-> TRUE, mapId |-> Get(maps[a].val, "id")]
    /\ UNCHANGED <<maps, activeMapId, characterLocations, isGenerating, selectedRoomId,
                   pending, now>>
    /\ UNCHANGED fnVars

moveCharacterCancel ==
    /\ moveDialog.open
    /\ moveDialog' = [open |-> FALSE, mapId |-> Null]
    /\ toast' = NoToast
    /\ UNCHANGED <<maps, activeMapId, characterLocations, isGenerating, selectedRoomId,
                   pending, now>>
    /\ UNCHANGED fnVars

\* characterLocations[charName] = location
SetLocation(locations, charName, location) ==
    Obj([c \in DOMAIN locations.obj \cup {charName} |->
            IF c = charName THEN location ELSE locations.obj[c]])

\* the click handler of #move-char-confirm; charName is "" when none is chosen
moveCharacterConfirm(charName) ==
    /\ moveDialog.open
    /\ IF charName = ""
       THEN /\ toast' = Toast("warning", "Please select a character")
            /\ UNCHANGED <<characterLocations, moveDialog>>
       ELSE /\ characterLocations' =
                  SetLocation(characterLocations, charName,
                              Obj([mapId |-> moveDialog.mapId, roomId |-> selectedRoomId]))
            /\ moveDialog' = [open |-> FALSE, mapId |-> Null]
            /\ toast' = Toast("success", "moved")
    /\ UNCHANGED <<maps, activeMapId, isGenerating, selectedRoomId, pending,
                   now>>
    /\ UNCHANGED fnVars

\* a.includes(b) over the lower-case names the model uses
Includes(a, b) == a = b \/ b = "" \/ (a = "old tavern" /\ b = "tavern")

\* infoBox.location.value: none, or a location name
InfoLocations == {Undefined, Str("Tavern"), Str("Old Tavern"), Str("Cellar")}

\* maps.find(m => name of m includes the location or the reverse): index, 0 when none
MatchingMap(ms, locationName) ==
    LET match(i) ==
            LET n == Lower(Get(ms[i].val, "name").str)
                l == Lower(locationName)
            IN Includes(n, l) \/ Includes(l, n)
    IN IF \E i \in 1..Len(ms) : match(i)
       THEN CHOOSE i \in 1..Len(ms) : match(i) /\ \A j \in 1..(i - 1) : ~match(j)
       ELSE 0

\* rooms.find(r => r.roomType === 'entrance') || rooms[0]
EntranceRoom(rooms) ==
    IF \E i \in 1..Len(rooms) : Get(rooms[i], "roomType") = Str("entrance")
    THEN rooms[CHOOSE i \in 1..Len(rooms) :
                   /\ Get(rooms[i], "roomType") = Str("entrance")
                   /\ \A j \in 1..(i - 1) : Get(rooms[j], "roomType") # Str("entrance")]
    ELSE rooms[1]

refreshLocationsFromChat(location) ==
    LET m == IF Truthy(location) THEN MatchingMap(maps, location.str) ELSE 0
        rooms == IF m = 0 THEN Undefined ELSE Get(maps[m].val, "rooms")
        detected == /\ m # 0
                    /\ IsArr(rooms) /\ Len(rooms.arr) > 0
                    /\ ~Truthy(Get(characterLocations, UserName))
    IN
    /\ IF detected
       THEN /\ characterLocations' =
                  SetLocation(characterLocations, UserName,
                              Obj([mapId |-> Get(maps[m].val, "id"),
                                   roomId |-> Get(EntranceRoom(rooms.arr), "id")]))
            /\ toast' = Toast("success", "Detected location")
       ELSE /\ UNCHANGED characterLocations
            /\ toast' = Toast("info", "Location refresh complete")
    /\ UNCHANGED <<maps, activeMapId, isGenerating, selectedRoomId, pending,
                   moveDialog, now>>
    /\ UNCHANGED fnVars


(***************************************************************************)
(* Export and import.                                                      *)
(***************************************************************************)
\* JSON.stringify(exportData, null, 2) for the map value map, exported at time t
ExportText(map, t) ==
    LET text == Stringify(Obj([version |-> Num(1), exportedAt |-> IsoTime(t), map |-> map]))
    IN <<Head(text), "\n">> \o Tail(text)

\* exportMap(): the download leaves the collection alone; nothing reads the
\* exportedAt of a file, the clock is read without being advanced
exportMap ==
    LET i == getActiveMap(maps, activeMapId) IN
    /\ toast' = IF i = 0 THEN Toast("warning", "No map selected to export")
                ELSE Toast("success", "exported")
    /\ UNCHANGED <<maps, activeMapId, characterLocations, isGenerating, selectedRoomId,
                   pending, moveDialog, now>>
    /\ UNCHANGED fnVars

\* the file exportMap writes for the active map
ExportedFiles ==
    LET i == getActiveMap(maps, activeMapId) IN
    IF i = 0 THEN {} ELSE {ExportText(maps[i].val, now)}

\* files the user may pick that exportMap did not write: a text that is no JSON,
\* and a file whose map has no name
InvalidFiles ==
    {<<"not", " ", "a", " ", "map">>,
     <<"{">> \o Quoted("map") \o <<":", "{">> \o Quoted("type") \o <<":">>
        \o Quoted("location") \o <<"}", "}">>}

\* an import that keeps the id of the file's map
ImportedMapKeepingId(fileMap, t) ==
    With(With(fileMap, "createdAt", IsoTime(t)), "updatedAt", IsoTime(t))

\* an import that takes the map's metadata and starts from an empty layout
ImportedMapWithoutLayout(fileMap, t) ==
    With(With(With(With(With(fileMap, "id", NewMapId(t)), "createdAt", IsoTime(t)),
                   "updatedAt", IsoTime(t)), "layout", Null), "rooms", Arr(<<>>))

\* the importedMap literal: { ...data.map, id, createdAt, updatedAt } at time t
ImportedMap(fileMap, t) ==
    With(With(With(fileMap, "id", NewMapId(t)), "createdAt", IsoTime(t)),
         "updatedAt", IsoTime(t))

\* input.onchange of importMap() for a file with the given text
importMap(text) ==
    LET parsed == JSONParse(text)
        data == parsed.val
        fileMap == Get(data, "map")
    IN
    IF ~parsed.ok \/ ReadThrows(data)
    THEN /\ toast' = Toast("error", "Failed to import map file")
         /\ UNCHANGED <<maps, activeMapId, characterLocations, isGenerating, selectedRoomId,
                        pending, moveDialog, now,
                        fnVars>>
    ELSE IF ~Truthy(fileMap) \/ ~Truthy(Get(fileMap, "name"))
    THEN /\ toast' = Toast("error", "Invalid map file format")
         /\ UNCHANGED <<maps, activeMapId, characterLocations, isGenerating, selectedRoomId,
                        pending, moveDialog, now,
                        fnVars>>
    ELSE /\ now < MaxClock
         /\ Len(maps) < MaxMaps
         /\ now' = now + 1
         /\ maps' = Append(maps, [ref |-> now', val |-> ImportedMap(fileMap, now')])
         /\ activeMapId' = Get(maps'[Len(maps')].val, "id")
         /\ toast' = Toast("success", "imported successfully")
         /\ UNCHANGED <<characterLocations, isGenerating, selectedRoomId, pending,
                        moveDialog,
                        fnVars>>

(***************************************************************************)
(* The modal: every handler, with every input.                             *)
(***************************************************************************)
(***************************************************************************)
(* persistence.js: loadChatData, which runs when a chat is opened.         *)
(***************************************************************************)
\* { maps: [], activeMapId: null, characterLocations: {} }
EmptyMapData ==
    Obj([maps |-> Arr(<<>>), activeMapId |-> Null, characterLocations |-> Obj(<<>>)])

\* setMapData(data): the value currentMapData takes
setMapData(data) == Or(data, EmptyMapData)

\* chat_metadata of a chat that holds no map data: no metadata, no
\* rpg_companion entry, an rpg_companion entry without mapData
ChatsWithoutMapData ==
    {Null, Obj(<<>>), Obj([rpg_companion |-> Obj([timestamp |-> Num(0)])])}

\* chat_metadata of the chat at hand: saveChatData has put the store itself
\* into rpg_companion.mapData.  A chat with other map data is not modelled.
ChatMetadata ==
    ChatsWithoutMapData
    \cup {Obj([rpg_companion |-> Obj([mapData |-> getMapData, timestamp |-> Num(0)])])}

\* a load that leaves the store alone when the saved data holds no mapData
LoadedMapDataWithoutReset(chat_metadata) ==
    IF ~Truthy(chat_metadata) \/ ~Truthy(Get(chat_metadata, "rpg_companion"))
    THEN setMapData(EmptyMapData)
    ELSE IF Truthy(Get(Get(chat_metadata, "rpg_companion"), "mapData"))
    THEN setMapData(Get(Get(chat_metadata, "rpg_companion"), "mapData"))
    ELSE getMapData

\* the argument loadChatData hands to setMapData, and what that makes of it
LoadedMapData(chat_metadata) ==
    IF ~Truthy(chat_metadata) \/ ~Truthy(Get(chat_metadata, "rpg_companion"))
    THEN setMapData(EmptyMapData)
    ELSE IF Truthy(Get(Get(chat_metadata, "rpg_companion"), "mapData"))
    THEN setMapData(Get(Get(chat_metadata, "rpg_companion"), "mapData"))
    ELSE setMapData(EmptyMapData)

\* loadChatData(): the store becomes the loaded data; the modal keeps its fields.
\* Loaded data equal to the store is the store object itself; maps of other
\* data are objects of their own.
loadChatData(chat_metadata) ==
    LET data == LoadedMapData(chat_metadata) IN
    /\ maps' = IF data = getMapData THEN maps
               ELSE [i \in 1..Len(Get(data, "maps").arr) |->
                       [ref |-> 0 - i, val |-> Get(data, "maps").arr[i]]]
    /\ activeMapId' = Get(data, "activeMapId")
    /\ characterLocations' = Get(data, "characterLocations")
    /\ toast' = NoToast
    /\ UNCHANGED <<isGenerating, selectedRoomId, pending, moveDialog, now>>
    /\ UNCHANGED fnVars

Next ==
    \/ \E id \in SelectableIds : selectMap(id)
    \/ \E roomId \in ShownRoomIds \cup {Str("room_9")} : showRoomDetails(roomId)
    \/ closeRoomDetails
    \/ regenerateMap
    \/ \E i \in 1..Len(pending) : \E o \in MapOutcomes : regenerateMapSettled(i, o)
    \/ regenerateRoomFurniture
    \/ \E i \in 1..Len(pending) : \E o \in FurnitureOutcomes :
          regenerateRoomFurnitureSettled(i, o)
    \/ \E name \in MapNames : \E type \in MapTypes : createMapConfirm(name, type)
    \/ \E confirmed \in BOOLEAN : deleteActiveMap(confirmed)
    \/ showMoveCharacterDialog
    \/ moveCharacterCancel
    \/ \E c \in Characters \cup {""} : moveCharacterConfirm(c)
    \/ \E l \in InfoLocations : refreshLocationsFromChat(l)
    \/ exportMap
    \/ \E f \in ExportedFiles \cup InvalidFiles : importMap(f)
    \/ \E c \in ChatMetadata : loadChatData(c)

Spec == Init /\ [][Next]_vars

(***************************************************************************)
(* parseMapJSON on its own: one call on a response the service may give.   *)
(***************************************************************************)
RoomHall ==
    <<"{">> \o Quoted("name") \o <<":">> \o Quoted("Hall") \o <<",">>
    \o Quoted("exits") \o <<":", "[">> \o Quoted("Kitchen") \o <<"]", "}">>
RoomKitchen ==
    <<"{">> \o Quoted("name") \o <<":">> \o Quoted("Kitchen") \o <<",">>
    \o Quoted("size") \o <<":">> \o Quoted("2x2") \o <<"}">>
RoomNameless == <<"{">> \o Quoted("size") \o <<":">> \o Quoted("3x3") \o <<"}">>
RoomOddLists ==
    <<"{">> \o Quoted("name") \o <<":">> \o Quoted("Attic") \o <<",">>
    \o Quoted("exits") \o <<":">> \o Quoted("none") \o <<",">>
    \o Quoted("furniture") \o <<":", "{">> \o Quoted("a") \o <<":", "1", "}", "}">>
RoomNull == <<"null">>

RoomLists ==
    {<<>>, <<RoomHall>>, <<RoomHall, RoomKitchen>>, <<RoomNameless>>, <<RoomNull>>,
     <<RoomOddLists>>, <<RoomKitchen, RoomNull>>}

RECURSIVE Elements(_)
\* the texts of a list, separated by commas
Elements(list) ==
    IF list = <<>> THEN <<>>
    ELSE Head(list) \o (IF Len(list) > 1 THEN <<",">> ELSE <<>>) \o Elements(Tail(list))

\* {"rooms":[...]}
CleanBody(list) ==
    <<"{">> \o Quoted("rooms") \o <<":", "[">> \o Elements(list) \o <<"]", "}">>

\* payloads that are JSON, but no object with a rooms array
OtherBodies ==
    {<<"{">> \o Quoted("rooms") \o <<":", "1", "}">>,
     <<"{">> \o Quoted("rooms") \o <<":", "null", "}">>,
     <<"{">> \o Quoted("a") \o <<":", "1", "}">>}

\* payloads JSON.parse rejects: unquoted keys, trailing commas, single quotes
DefectBodies ==
    {RespBareKeys, RespNoRooms, RespNamelessRoom,
     <<"{", "rooms", ":", "[", "null", "]", "}">>,
     <<"{">> \o Quoted("rooms") \o <<":", "[">> \o RoomHall \o <<",", "]", "}">>,
     <<"{">> \o Quoted("rooms") \o <<":", "1", ",", "}">>,
     <<"{", SQ, "rooms", SQ, ":", "[", "{", SQ, "name", SQ, ":", SQ, "Hall", SQ,
       "}", "]", "}">>}

Bodies == {CleanBody(l) : l \in RoomLists} \cup OtherBodies \cup DefectBodies

Prose == <<"Here", " ", "is", " ", "the", " ", "map", ":", "\n">>
Fenced(body) == <<FENCE, "json", "\n">> \o body \o <<"\n", FENCE>>

\* a string literal in quotes q
Q(q, k) == <<q, k, q>>

\* a payload of two rooms whose keys name and furniture of the first room are
\* unquoted and whose first room ends in a trailing comma; its strings are in
\* quotes q
ExampleBody(q) ==
    <<"{">> \o Q(q, "rooms") \o <<":", "[", "{", "name", ":">> \o Q(q, "Hall")
    \o <<",">> \o Q(q, "size") \o <<":">> \o Q(q, "4x4")
    \o <<",">> \o Q(q, "exits") \o <<":", "[">> \o Q(q, "Kitchen") \o <<"]">>
    \o <<",", "furniture", ":", "[">> \o Q(q, "table") \o <<"]", ",", "}", ",", "{">>
    \o Q(q, "name") \o <<":">> \o Q(q, "Kitchen")
    \o <<",">> \o Q(q, "size") \o <<":">> \o Q(q, "3x3")
    \o <<",">> \o Q(q, "exits") \o <<":", "[">> \o Q(q, "Hall") \o <<"]">>
    \o <<",">> \o Q(q, "furniture") \o <<":", "[", "]", "}", "]", "}">>

\* the payload after prose, in a code fence
ExampleResponse(q) ==
    <<"Sure", "!", " ", FENCE, "json", "\n">> \o ExampleBody(q) \o <<"\n", FENCE>>

ParseInputs ==
    {RespEmpty, RespNoJson, <<"null">>, <<"1">>}
    \cup Bodies
    \cup {Prose \o b \o <<"\n", "Enjoy", "!">> : b \in Bodies}
    \cup {Fenced(b) : b \in Bodies}
    \cup {ExampleResponse(SQ), ExampleResponse(DQ)}
    \cup {Prose \o Fenced(b) : b \in Bodies}

InitParse ==
    /\ MapInit
    /\ input \in ParseInputs
    /\ output = NotCalled
    /\ presetManager = NoPresets

\* const parsedData = parseMapJSON(response)
CallParseMapJSON ==
    /\ output = NotCalled
    /\ output' = parseMapJSON(input)
    /\ UNCHANGED <<input, mapVars, presetManager>>

NextParse == CallParseMapJSON

SpecParse == InitParse /\ [][NextParse]_vars


(***************************************************************************)
(* Properties of the map modal.                                            *)
(***************************************************************************)
RejectedToast == Toast("warning", "Generation already in progress")
DeletedToast == Toast("success", "deleted")
ImportedToast == Toast("success", "imported successfully")

\* C1: at most one call of the generative text service is outstanding at any
\* time, and a step taken while isGenerating is true never adds a call: the
\* request made then is answered by the warning, not queued.
C1_OneCallOutstanding ==
    /\ [](Len(pending) <= 1)
    /\ [][isGenerating => Len(pending') <= Len(pending)]_vars

\* a map generation is outstanding and a second request was just rejected
C1_RejectedWhileMapCallOutstanding ==
    /\ toast = RejectedToast
    /\ isGenerating
    /\ Len(pending) = 1
    /\ pending[1].kind = "map"

\* a call of regenerateMap or regenerateRoomFurniture that is answered by the
\* "already in progress" warning
RejectedRequest ==
    /\ isGenerating
    /\ regenerateMap \/ regenerateRoomFurniture
    /\ toast' = RejectedToast

\* some outstanding call settles
SomeCallSettles ==
    \/ \E i \in 1..Len(pending) : \E o \in MapOutcomes : regenerateMapSettled(i, o)
    \/ \E i \in 1..Len(pending) : \E o \in FurnitureOutcomes :
          regenerateRoomFurnitureSettled(i, o)

\* C2: a generation request rejected because a generation is in flight leaves
\* maps, activeMapId, characterLocations, selectedRoomId, isGenerating and the
\* outstanding call as they were, and an outstanding call can always settle.
C2_RejectedRequestChangesNothing ==
    /\ [][RejectedRequest =>
            /\ UNCHANGED <<maps, activeMapId, characterLocations, selectedRoomId,
                           isGenerating, pending>>
            /\ Len(pending') = 1]_vars
    /\ [](pending # <<>> => ENABLED SomeCallSettles)

\* a furniture generation is outstanding and a second request was just rejected
C2_RejectedWhileFurnitureCallOutstanding ==
    /\ toast = RejectedToast
    /\ isGenerating
    /\ Len(pending) = 1
    /\ pending[1].kind = "furniture"
    /\ Truthy(selectedRoomId)

\* C3: the step in which deleteActiveMap removes the active map M takes M out
\* of maps and leaves no characterLocations entry whose mapId is M's id.
C3_DeleteRemovesMapAndLocations ==
    [][toast' = DeletedToast =>
          /\ activeMapId \in MapIds
          /\ \A i \in 1..Len(maps') : Get(maps'[i].val, "id") # activeMapId
          /\ \A c \in DOMAIN characterLocations'.obj :
                Get(characterLocations'.obj[c], "mapId") # activeMapId]_vars

\* a map was just deleted; another map and the location of a character in it remain
C3_DeletedBesideLocatedMap ==
    /\ toast = DeletedToast
    /\ Len(maps) = 1
    /\ UserName \in DOMAIN characterLocations.obj
    /\ Get(characterLocations.obj[UserName], "mapId") = Get(maps[1].val, "id")

CanonicalFields ==
    {"id", "name", "roomType", "description", "position", "exits", "furniture"}

\* an object with a rooms array whose entries all carry the canonical fields
FullyCoerced(v) ==
    /\ IsObj(v)
    /\ IsArr(Get(v, "rooms"))
    /\ \A i \in 1..Len(Get(v, "rooms").arr) :
          /\ IsObj(Get(v, "rooms").arr[i])
          /\ CanonicalFields \subseteq DOMAIN Get(v, "rooms").arr[i].obj

\* C4: parseMapJSON returns null or a fully coerced object, whether the value
\* comes from the strict parse or from the repair pass.
C4_ParseReturnsNullOrCoerced ==
    output # NotCalled => (output = Null \/ FullyCoerced(output))

MapFailureToasts ==
    {Toast("error", "No response from AI"), Toast("error", "Invalid map data returned"),
     Toast("error", "Failed to generate map")}

\* C5: when the outstanding map generation fails (empty response, unusable
\* data, or an exception of the service or the solver), the handler ends with
\* an error message, no map of the collection changes, and isGenerating is reset.
C5_FailedGenerationKeepsMaps ==
    [][(pending # <<>> /\ pending[1].kind = "map" /\ toast' \in MapFailureToasts) =>
          /\ maps' = maps
          /\ isGenerating' = FALSE
          /\ pending' = <<>>]_vars

\* a generation just failed on unusable data while the only map holds rooms of
\* an earlier generation
C5_FailedOverGeneratedMap ==
    /\ toast = Toast("error", "Invalid map data returned")
    /\ Len(maps) = 1
    /\ Get(maps[1].val, "rooms") # Arr(<<>>)

\* the actors and the values of the locationContextDepth setting
Actors == Characters \cup {"Stranger"}
Depths == {Undefined, Str("adjacent_rooms"), Str("full_building")}

MapsWithId(id) == {i \in 1..Len(maps) : Get(maps[i].val, "id") = id}

\* actor c has no entry, or an entry naming no map, or no room of its map
Unresolved(c) ==
    \/ c \notin DOMAIN characterLocations.obj
    \/ MapsWithId(Get(characterLocations.obj[c], "mapId")) = {}
    \/ \A i \in MapsWithId(Get(characterLocations.obj[c], "mapId")) :
          \A k \in 1..Len(Get(maps[i].val, "rooms").arr) :
             Get(Get(maps[i].val, "rooms").arr[k], "id")
                # Get(characterLocations.obj[c], "roomId")

\* C6: buildLocationContextForInjection returns the empty string for an actor
\* without a resolved location: no entry, an entry whose map is gone, or an
\* entry whose room is no longer among the rooms of its map.
C6_UnresolvedLocationGivesEmptyContext ==
    \A c \in Actors : \A d \in Depths :
       Unresolved(c) =>
          buildLocationContextForInjection(getMapData, c, d) = Returned("")

\* the user's entry names a room id that the regenerated rooms of its map lack
C6_RoomReplacedByRegeneration ==
    /\ UserName \in DOMAIN characterLocations.obj
    /\ Get(characterLocations.obj[UserName], "roomId") = RoomId(0)
    /\ \E i \in MapsWithId(Get(characterLocations.obj[UserName], "mapId")) :
          /\ Get(maps[i].val, "rooms") # Arr(<<>>)
          /\ \A k \in 1..Len(Get(maps[i].val, "rooms").arr) :
                Get(Get(maps[i].val, "rooms").arr[k], "id") # RoomId(0)

\* C7: activeMapId is null or the id of a map of the collection.
C7_ActiveMapIdNamesAMap == activeMapId = Null \/ activeMapId \in MapIds

\* C8: no two maps of the collection have the same id.
C8_MapIdsUnique ==
    \A i \in 1..Len(maps) : \A j \in 1..Len(maps) :
       i # j => Get(maps[i].val, "id") # Get(maps[j].val, "id")

\* the exported copy of a map was imported while the map is in the collection
C8_ImportedCopyBesideOriginal ==
    /\ toast = ImportedToast
    /\ Len(maps) = 2
    /\ maps[2].val = ImportedMap(maps[1].val, now)

\* the create dialog is confirmed with a name
CreateStep ==
    \E name \in MapNames \ {""} : \E type \in MapTypes : createMapConfirm(name, type)

\* C9: a confirmed create and a successful import append the new map as the
\* last element, make it the active map, and leave every other map and every
\* characterLocations entry as it was; a created map has no rooms.
C9_CreateAndImportAppend ==
    [][(CreateStep \/ toast' = ImportedToast) =>
          /\ Len(maps') = Len(maps) + 1
          /\ SubSeq(maps', 1, Len(maps)) = maps
          /\ activeMapId' = Get(maps'[Len(maps')].val, "id")
          /\ characterLocations' = characterLocations
          /\ CreateStep => Get(maps'[Len(maps')].val, "rooms") = Arr(<<>>)]_vars

\* an empty map is the active map, beside a generated map a character is in
C9_NewMapBesideLocatedMap ==
    /\ Len(maps) = 2
    /\ Get(maps[2].val, "rooms") = Arr(<<>>)
    /\ activeMapId = Get(maps[2].val, "id")
    /\ Get(maps[1].val, "rooms") # Arr(<<>>)
    /\ UserName \in DOMAIN characterLocations.obj

RoundTripFields == {"name", "type", "layout", "rooms"}

\* C10: importing the file exportMap writes for the active map m adds a map
\* with the name, type, layout and rooms of m, and leaves m as it was.
C10_ExportImportRoundTrip ==
    [][toast' = ImportedToast =>
          /\ getActiveMap(maps, activeMapId) # 0
          /\ Len(maps') = Len(maps) + 1
          /\ maps'[getActiveMap(maps, activeMapId)] = maps[getActiveMap(maps, activeMapId)]
          /\ \A k \in RoundTripFields :
                Get(maps'[Len(maps')].val, k)
                   = Get(maps[getActiveMap(maps, activeMapId)].val, k)]_vars

\* a map with generated rooms and furniture was exported and imported
C10_ImportedGeneratedMap ==
    /\ toast = ImportedToast
    /\ Len(maps) = 2
    /\ Get(maps[2].val, "rooms") # Arr(<<>>)
    /\ Get(maps[2].val, "layout") # Null
    /\ \A k \in RoundTripFields : Get(maps[2].val, k) = Get(maps[1].val, k)
    /\ Get(maps[2].val, "id") # Get(maps[1].val, "id")


(***************************************************************************)
(* buildLocationContextForInjection as a function of the store it is       *)
(* handed, the actor and the locationContextDepth setting.                 *)
(***************************************************************************)
OtherName == "Bob"

StoreHall ==
    Obj([id |-> Str("room_0"), name |-> Str("Hall"), roomType |-> Str("entrance"),
         description |-> Str("A wide hall"),
         exits |-> Arr(<<Obj([direction |-> Str("north"), destination |-> Str("Kitchen")])>>),
         furniture |-> Arr(<<Obj([name |-> Str("Table")])>>)])

\* a room without furniture and without exits
StoreKitchen ==
    Obj([id |-> Str("room_1"), name |-> Str("Kitchen"), description |-> Str("Warm")])

StoreMap(rooms) == Obj([id |-> Str("map_1"), name |-> Str("Tavern"), rooms |-> rooms])

\* a map without rooms
StoreMapWithoutRooms == Obj([id |-> Str("map_1"), name |-> Str("Tavern")])

InHall == Obj([mapId |-> Str("map_1"), roomId |-> Str("room_0")])
InKitchen == Obj([mapId |-> Str("map_1"), roomId |-> Str("room_1")])

\* characterLocations: missing, empty, the user alone, with another actor in the
\* same room, in another room, null, or without mapId and roomId, and dangling
\* references to a map and to a room
StoreLocations ==
    {Undefined, Obj(<<>>),
     Obj([User |-> InHall]),
     Obj([User |-> InKitchen]),
     Obj([User |-> InHall, Bob |-> InHall]),
     Obj([User |-> InHall, Bob |-> InKitchen]),
     Obj([User |-> InHall, Bob |-> Null]),
     Obj([User |-> InHall, Bob |-> Obj(<<>>)]),
     Obj([User |-> Obj([mapId |-> Str("map_9"), roomId |-> Str("room_0")])]),
     Obj([User |-> Obj([mapId |-> Str("map_1"), roomId |-> Str("room_9")])])}

StoreMaps ==
    {Null, Arr(<<>>), Arr(<<StoreMapWithoutRooms>>), Arr(<<StoreMap(Arr(<<>>))>>),
     Arr(<<StoreMap(Arr(<<StoreHall>>))>>),
     Arr(<<StoreMap(Arr(<<StoreHall, StoreKitchen>>))>>)}

Stores ==
    {Null} \cup {Obj([maps |-> m, activeMapId |-> Null, characterLocations |-> l]) :
                    m \in StoreMaps, l \in StoreLocations}

ContextDepths ==
    {Undefined, Str("current_only"), Str("adjacent_rooms"), Str("full_building")}

ContextInputs ==
    [mapData : Stores, characterName : {UserName, OtherName}, depth : ContextDepths]

InitContext ==
    MapInit /\ input \in ContextInputs /\ output = NotCalled /\ presetManager = NoPresets

\* the call of buildLocationContextForInjection(mapData, characterName)
CallBuildLocationContext ==
    /\ output = NotCalled
    /\ output' = buildLocationContextForInjection(input.mapData, input.characterName,
                                                  input.depth)
    /\ UNCHANGED <<input, mapVars, presetManager>>

NextContext == CallBuildLocationContext

SpecContext == InitContext /\ [][NextContext]_vars


\* text.includes(part)
Contains(text, part) ==
    \E i \in 1..(Len(text) - Len(part) + 1) : SubSeq(text, i, i + Len(part) - 1) = part

ExitsMarker == "Exits: "
OtherRoomsMarker == "Other areas in this location: "

\* C11: the context lists exits only at depth adjacent_rooms or full_building
\* and the other rooms only at depth full_building; at current_only, the
\* default of an unset depth, it lists neither.  For an actor in the Hall,
\* whose exit leads north to the Kitchen, the exits are listed at exactly the
\* two deeper depths and the Kitchen as other room at exactly full_building.
C11_DepthSelectsExitsAndOtherRooms ==
    (output # NotCalled /\ ~output.threw) =>
       /\ Contains(output.text, ExitsMarker) =>
             input.depth \in {Str("adjacent_rooms"), Str("full_building")}
       /\ Contains(output.text, OtherRoomsMarker) => input.depth = Str("full_building")
       /\ Contains(output.text, "[Location: Tavern - Hall]") =>
             /\ Contains(output.text, "Exits: north to Kitchen.")
                   <=> input.depth \in {Str("adjacent_rooms"), Str("full_building")}
             /\ Contains(output.text, "Other areas in this location: Kitchen.")
                   <=> /\ input.depth = Str("full_building")
                       /\ Len(Get(input.mapData, "maps").arr[1].obj.rooms.arr) = 2

\* the context of an actor in the Hall at depth full_building, with both lists
C11_FullBuildingContext ==
    /\ output # NotCalled
    /\ input.depth = Str("full_building")
    /\ ~output.threw
    /\ Contains(output.text, "Exits: north to Kitchen.")
    /\ Contains(output.text, "Other areas in this location: Kitchen.")

\* C12: buildLocationContextForInjection returns a string for every store: it
\* never leaves by an exception.
C12_ContextNeverThrows == output # NotCalled => ~output.threw


(***************************************************************************)
(* Properties of parseMapJSON.                                             *)
(***************************************************************************)
\* the rooms of a result, <<>> when it has no rooms array
RoomsOf(v) == IF IsArr(Get(v, "rooms")) THEN Get(v, "rooms").arr ELSE <<>>

\* C13: a payload in prose and a code fence whose only defects are single
\* quotes, unquoted keys and trailing commas is parsed into a non-null result
\* with every room of the payload: Hall and Kitchen.
C13_DefectiveResponseParsed ==
    \A q \in {SQ, DQ} :
       (output # NotCalled /\ input = ExampleResponse(q)) =>
          /\ output # Null
          /\ Len(RoomsOf(output)) = 2
          /\ Get(RoomsOf(output)[1], "name") = Str("Hall")
          /\ Get(RoomsOf(output)[2], "name") = Str("Kitchen")

\* JSON.parse(text) throws
NotJSON(text) == text = <<>> \/ ~JSONParse(text).ok

\* neither the text of the strict parse nor the repaired text is JSON
NoValidJSON(response) ==
    /\ NotJSON(JsonStr(response))
    /\ NotJSON(repairMapJSON(response))

\* C14: parseMapJSON returns null for every response from which neither the
\* strict parse nor the repair pass yields valid JSON.
C14_NullWithoutValidJSON ==
    (output # NotCalled /\ NoValidJSON(input)) => output = Null

\* "no json here" was parsed to null
C14_NoJsonHere ==
    /\ input = RespNoJson
    /\ NoValidJSON(input)
    /\ output = Null

\* C15: a response that is a clean JSON object with a rooms array is parsed
\* without entering the repair pass, into a non-null result with the same
\* rooms in the same order.
C15_CleanResponseStrictOnly ==
    \A l \in RoomLists :
       (output # NotCalled /\ input = CleanBody(l)) =>
          /\ ~EnteredRepair(input)
          /\ output # Null
          /\ Len(RoomsOf(output)) = Len(l)
          /\ \A i \in 1..Len(l) :
                Get(RoomsOf(output)[i], "name")
                   = Or(Get(JSONParse(l[i]).val, "name"), RoomName(i - 1))

\* C16: in every non-null result each room's exits and furniture are arrays;
\* stated for the results the strict parse returns, which are coerced.
C16_ExitsAndFurnitureAreArrays ==
    (output # NotCalled /\ output # Null /\ ~EnteredRepair(input)) =>
       /\ IsArr(Get(output, "rooms"))
       /\ \A i \in 1..Len(RoomsOf(output)) :
             /\ IsArr(Get(RoomsOf(output)[i], "exits"))
             /\ IsArr(Get(RoomsOf(output)[i], "furniture"))

\* C17: in every non-null result each room has a size: the size of its entry
\* in the payload, "3x3" when the entry had none; stated for the results the
\* strict parse returns, which are coerced.
C17_SizeKeptOrDefaulted ==
    /\ (output # NotCalled /\ output # Null /\ ~EnteredRepair(input)) =>
          \A i \in 1..Len(RoomsOf(output)) : IsStr(Get(RoomsOf(output)[i], "size"))
    /\ \A l \in RoomLists :
          (output # NotCalled /\ input = CleanBody(l) /\ output # Null
             /\ ~EnteredRepair(input)) =>
             \A i \in 1..Len(RoomsOf(output)) :
                Get(RoomsOf(output)[i], "size")
                   = Or(Get(JSONParse(l[i]).val, "size"), Str("3x3"))


(***************************************************************************)
(* Properties of the store across chats.                                   *)
(***************************************************************************)
\* loadChatData runs for a chat without persisted map data
LoadWithoutMapData == \E c \in ChatsWithoutMapData : loadChatData(c)

\* C18: when loadChatData runs for a chat with no rpg_companion data, or with
\* data that holds no mapData, the store becomes {maps: [], activeMapId: null,
\* characterLocations: {}}: no map and no location of the chat open before remains.
C18_LoadWithoutMapDataEmptiesStore ==
    [][LoadWithoutMapData =>
          /\ maps' = <<>>
          /\ activeMapId' = Null
          /\ characterLocations' = Obj(<<>>)
          /\ getMapData' = EmptyMapData]_vars

\* the store is empty while a room of the chat open before is still selected
\* in the modal: only a load empties the store without closing the room
C18_EmptiedUnderOpenRoom ==
    /\ maps = <<>>
    /\ activeMapId = Null
    /\ characterLocations = Obj(<<>>)
    /\ selectedRoomId # Null
    /\ toast = NoToast


(***************************************************************************)
(* The layout solver on its own: one call on a room list.                  *)
(***************************************************************************)
\* a room entry as the service describes it
RoomEntry(name, size, exits) ==
    Obj([name |-> Str(name), size |-> size,
         exits |-> Arr([k \in 1..Len(exits) |-> Str(exits[k])]),
         furniture |-> Arr(<<>>)])

\* rooms that refer to each other by name: in another case, to a room that is
\* not there, with a size, without one and with a malformed one
RoomPool ==
    {RoomEntry("Entrance", Str("3x3"), <<"Hall">>),
     RoomEntry("Hall", Str("4x4"), <<"Kitchen", "Garden">>),
     RoomEntry("Kitchen", Str("2x2"), <<"HALL">>),
     RoomEntry("Cellar", Undefined, <<>>),
     RoomEntry("Attic", Str("big"), <<"Cellar">>),
     RoomEntry("Inn", Str("1x1"), <<"Attic">>)}

\* eight small rooms in a row: more rooms than a grid of seven has slots
LongList ==
    <<RoomEntry("Cellar", Str("1x1"), <<>>),
      RoomEntry("Hall", Str("1x1"), <<"Kitchen", "Attic">>),
      RoomEntry("Kitchen", Str("1x1"), <<"Pantry">>),
      RoomEntry("Pantry", Str("1x1"), <<"Study">>),
      RoomEntry("Front Door", Str("1x1"), <<"Hall">>),
      RoomEntry("Attic", Str("1x1"), <<"Inn">>),
      RoomEntry("Study", Str("1x1"), <<>>),
      RoomEntry("Inn", Str("1x1"), <<>>)>>

\* five large rooms: a grid wider than seven
LargeList ==
    <<RoomEntry("Hall", Str("4x4"), <<"Kitchen">>),
      RoomEntry("Kitchen", Str("4x4"), <<"Cellar">>),
      RoomEntry("Attic", Str("4x4"), <<>>),
      RoomEntry("Cellar", Str("4x4"), <<>>),
      RoomEntry("Inn", Str("4x4"), <<"Attic">>)>>

\* two rooms that name each other and lie in the same row of slots
CrossList ==
    <<RoomEntry("Hall", Str("2x2"), <<"Cellar", "Kitchen", "Garden">>),
      RoomEntry("Cellar", Str("2x2"), <<>>),
      RoomEntry("Kitchen", Str("2x2"), <<"hall">>)>>

MaxListed == 3

\* the lists of up to MaxListed different rooms of the pool, and the two long lists
RoomListInputs ==
    {l \in UNION {[1..n -> RoomPool] : n \in 0..MaxListed} :
        \A i, j \in 1..Len(l) : i # j => l[i] # l[j]}
    \cup {LongList, SubSeq(LongList, 1, 5), SubSeq(LongList, 2, 7), LargeList, CrossList}

InitSolve ==
    MapInit /\ input \in RoomListInputs /\ output = NotCalled /\ presetManager = NoPresets

\* const layoutData = solveRoomLayout(parsedData.rooms)
CallSolveRoomLayout ==
    /\ output = NotCalled
    /\ output' = solveRoomLayout(Arr(input))
    /\ UNCHANGED <<input, mapVars, presetManager>>

NextSolve == CallSolveRoomLayout

SpecSolve == InitSolve /\ [][NextSolve]_vars

\* the position of room i of a solved layout, and the side of its grid
SolvedPosition(layoutData, i) == Get(Get(layoutData, "rooms").arr[i], "position")
GridRows(layoutData) == Get(Get(Get(layoutData, "layout"), "gridSize"), "rows").num
GridCols(layoutData) == Get(Get(Get(layoutData, "layout"), "gridSize"), "cols").num

\* C19: the solver gives every room of the list a position with
\* 0 <= row < gridSize.rows and 0 <= col < gridSize.cols, also when the
\* slots are used up and the room is placed in row 0.
C19_PositionsInsideGrid ==
    output # NotCalled =>
       /\ Len(Get(output, "rooms").arr) = Len(input)
       /\ \A i \in 1..Len(input) :
             /\ Get(SolvedPosition(output, i), "row").num \in 0..(GridRows(output) - 1)
             /\ Get(SolvedPosition(output, i), "col").num \in 0..(GridCols(output) - 1)

\* the position of room i is one of the slots of a grid of side g
InSlot(layoutData, i) ==
    \E k \in 1..Len(Slots(GridRows(layoutData))) :
       PositionValue(Slots(GridRows(layoutData))[k]) = SolvedPosition(layoutData, i)

\* a list with more rooms than slots was solved: a room lies in row 0, outside the slots
C19_PlacedByFallback ==
    /\ output # NotCalled
    /\ Len(input) > Len(Slots(GridRows(output)))
    /\ \E i \in 1..Len(input) :
          /\ ~InSlot(output, i)
          /\ Get(SolvedPosition(output, i), "row") = Num(0)


\* an exit of room i names room j, whatever the case of the letters
NamesRoom(rooms, i, j) ==
    \E k \in 1..Len(ExitsOf(rooms[i])) :
       Lower(ExitName(ExitsOf(rooms[i])[k])) = Lower(NameOf(rooms[j]))

RECURSIVE ReachableFrom(_, _)
\* the rooms that the rooms of S reach through named exits, S included
ReachableFrom(rooms, S) ==
    LET T == S \cup {j \in 1..Len(rooms) : \E i \in S : NamesRoom(rooms, i, j)} IN
    IF T = S THEN S ELSE ReachableFrom(rooms, T)

\* the first room whose name has a start marker, else the first room
FirstStart(rooms) ==
    IF \E i \in 1..Len(rooms) : HasStartMarker(NameOf(rooms[i]))
    THEN CHOOSE i \in 1..Len(rooms) :
            /\ HasStartMarker(NameOf(rooms[i]))
            /\ \A j \in 1..Len(rooms) : HasStartMarker(NameOf(rooms[j])) => i <= j
    ELSE 1

\* the number of the slot room i lies in, in the order the slots are claimed
SlotRank(layoutData, i) ==
    CHOOSE k \in 1..Len(Slots(GridRows(layoutData))) :
       PositionValue(Slots(GridRows(layoutData))[k]) = SolvedPosition(layoutData, i)

\* C20: every room reachable from the start room through named exits claims
\* its slot before any room that is not reachable from it: a room out of reach
\* that lies in a slot has every reachable room in an earlier slot.
C20_ReachableRoomsPlacedFirst ==
    (output # NotCalled /\ input # <<>>) =>
       \A r \in ReachableFrom(input, {FirstStart(input)}) :
          \A u \in (1..Len(input)) \ ReachableFrom(input, {FirstStart(input)}) :
             InSlot(output, u) =>
                /\ InSlot(output, r)
                /\ SlotRank(output, r) < SlotRank(output, u)

\* a room out of reach stands in the list before a reachable room, and lies in
\* a later slot
C20_ListOrderOvertaken ==
    /\ output # NotCalled
    /\ input # <<>>
    /\ \E r \in ReachableFrom(input, {FirstStart(input)}) :
          \E u \in (1..Len(input)) \ ReachableFrom(input, {FirstStart(input)}) :
             /\ u < r
             /\ InSlot(output, u)
             /\ InSlot(output, r)
             /\ SlotRank(output, r) < SlotRank(output, u)


\* the corridor cells of a solved layout
SolvedCorridors(layoutData) == Get(Get(layoutData, "layout"), "corridors").arr

\* C21: in a layout the solver produces no corridor cell has the row and the
\* column of the position of a room, the rooms of row 0 included.
C21_CorridorsFreeOfRooms ==
    output # NotCalled =>
       \A c \in 1..Len(SolvedCorridors(output)) :
          \A i \in 1..Len(input) :
             SolvedCorridors(output)[c] # SolvedPosition(output, i)

\* a room of row 0 lies in a column that the corridor crosses further down
C21_FallbackRoomAboveCorridor ==
    /\ output # NotCalled
    /\ \E i \in 1..Len(input) :
          /\ ~InSlot(output, i)
          /\ \E c \in 1..Len(SolvedCorridors(output)) :
                /\ Get(SolvedCorridors(output)[c], "col") = Get(SolvedPosition(output, i), "col")
                /\ Get(SolvedCorridors(output)[c], "row") # Get(SolvedPosition(output, i), "row")


\* the exits of room i of a solved layout
SolvedExits(layoutData, i) == Get(Get(layoutData, "rooms").arr[i], "exits").arr

\* the opposite of a compass direction
Opposite(d) ==
    CASE d = "east" -> "west"
      [] d = "west" -> "east"
      [] d = "north" -> "south"
      [] d = "south" -> "north"
      [] OTHER -> "none"

\* exit k of room i resolves to room j
ExitResolvesTo(rooms, i, k, j) == ResolveRoom(rooms, ExitName(ExitsOf(rooms[i])[k])) = j

\* C22: when an exit of room A resolves to room B, an exit of B resolves to A
\* and the two rooms lie in different cells, the directions of the two exits
\* are opposite (east/west or north/south); an exit that resolves to no room
\* has the direction corridor and the destination name it came with.
C22_ExitDirectionsConsistent ==
    output # NotCalled =>
       \A i \in 1..Len(input) : \A k \in 1..Len(ExitsOf(input[i])) :
          /\ \A j \in 1..Len(input) : \A m \in 1..Len(ExitsOf(input[j])) :
                (/\ ExitResolvesTo(input, i, k, j)
                 /\ ExitResolvesTo(input, j, m, i)
                 /\ SolvedPosition(output, i) # SolvedPosition(output, j))
                => /\ Get(SolvedExits(output, i)[k], "direction").str
                        \in {"east", "west", "north", "south"}
                   /\ Get(SolvedExits(output, j)[m], "direction").str
                        = Opposite(Get(SolvedExits(output, i)[k], "direction").str)
          /\ ExitResolvesTo(input, i, k, 0)
                => SolvedExits(output, i)[k] =
                      Obj([direction |-> Str("corridor"),
                           destination |-> Str(ExitName(ExitsOf(input[i])[k]))])

\* a solved list holds a pair of rooms east and west of each other, and an
\* exit that names no room of the list
C22_EastWestPairAndLooseExit ==
    /\ output # NotCalled
    /\ \E i, j \in 1..Len(input) :
          \E k \in 1..Len(ExitsOf(input[i])) : \E m \in 1..Len(ExitsOf(input[j])) :
             /\ ExitResolvesTo(input, i, k, j)
             /\ ExitResolvesTo(input, j, m, i)
             /\ Get(SolvedExits(output, i)[k], "direction") = Str("east")
             /\ Get(SolvedExits(output, j)[m], "direction") = Str("west")
    /\ \E i \in 1..Len(input) : \E k \in 1..Len(ExitsOf(input[i])) :
          ExitResolvesTo(input, i, k, 0)


\* C23: the solver called with an empty list returns a layout of 5 rows and
\* 5 columns without corridors, and no rooms.
C23_EmptyListGivesDefaultLayout ==
    (output # NotCalled /\ input = <<>>) =>
       output = Obj([layout |-> Obj([gridSize |-> Obj([rows |-> Num(5), cols |-> Num(5)]),
                                     corridors |-> Arr(<<>>)]),
                     rooms |-> Arr(<<>>)])

\* the solver was called with the empty list and returned
C23_EmptyListSolved ==
    /\ input = <<>>
    /\ output # NotCalled
    /\ Get(output, "rooms") = Arr(<<>>)


(***************************************************************************)
(* The generation gate over time.  generateQuietPrompt returns a promise   *)
(* of the host; the call is taken to settle at some time, by resolving or  *)
(* by rejecting.                                                           *)
(***************************************************************************)
SpecLive == Spec /\ WF_vars(SomeCallSettles)

\* a request of regenerateMap() made for an existing active map
MapRequested == regenerateMap /\ getActiveMap(maps, activeMapId) # 0

\* C24: isGenerating is true exactly while the call of an accepted generation
\* is outstanding; the step in which the call settles, however it settles,
\* sets isGenerating to false; a generation requested while isGenerating is
\* false is accepted; and isGenerating never stays true forever.
C24_GateOpensWhenCallSettles ==
    /\ [](isGenerating <=> pending # <<>>)
    /\ [][SomeCallSettles => (~isGenerating' /\ pending' = <<>>)]_vars
    /\ [][(MapRequested /\ ~isGenerating) => (isGenerating' /\ Len(pending') = 1)]_vars
    /\ (isGenerating ~> ~isGenerating)

\* the call of a map generation was rejected by the service and the gate is open
C24_GateOpenAfterRejectedCall ==
    /\ toast = Toast("error", "Failed to generate map")
    /\ ~isGenerating
    /\ pending = <<>>


(***************************************************************************)
(* Handlers that run between the steps of another handler.                 *)
(***************************************************************************)
\* the outstanding call of a map generation settles
MapCallSettles ==
    \E i \in 1..Len(pending) : \E o \in MapOutcomes : regenerateMapSettled(i, o)

\* C25: when the call of an accepted regenerateMap settles, the collection
\* holds the same map objects as before, so a map deleted in the meantime
\* does not come back, and every map other than the one that was active when
\* the request was accepted is left as it was, whatever was selected,
\* deleted, created, imported or loaded while the call was outstanding.
C25_ResultWrittenToTargetOnly ==
    [][MapCallSettles =>
          /\ Len(maps') = Len(maps)
          /\ \A j \in 1..Len(maps) :
                /\ maps'[j].ref = maps[j].ref
                /\ maps[j].ref # pending[1].map => maps'[j] = maps[j]]_vars

\* a generation has just succeeded while another map, created after the
\* request, is the active one: that map is still empty
C25_GeneratedBesideNewActiveMap ==
    /\ toast = Toast("success", "generated successfully")
    /\ Len(maps) = 2
    /\ activeMapId = Get(maps[2].val, "id")
    /\ Get(maps[2].val, "rooms") = Arr(<<>>)
    /\ Get(maps[1].val, "rooms") # Arr(<<>>)
    /\ Get(maps[1].val, "updatedAt") = IsoTime(now)


\* C26: the location that a confirmed move writes names a map of the
\* collection and a room of that map, as they are when it is written.
C26_MovedIntoExistingRoom ==
    [][\A c \in Characters :
          moveCharacterConfirm(c) =>
             /\ FindMap(maps', Get(Get(characterLocations', c), "mapId")) # 0
             /\ FindRoom(maps'[FindMap(maps', Get(Get(characterLocations', c), "mapId"))].val,
                         Get(Get(characterLocations', c), "roomId")) # 0]_vars


\* C27: a character that getCharactersInRoom reports for a room of the
\* displayed map has a stored location with the id of that map.
C27_CharactersShownAreInDisplayedMap ==
    \A roomId \in ShownRoomIds :
       \A c \in getCharactersInRoom(roomId) :
          Get(characterLocations.obj[c], "mapId") = activeMapId


\* C28: confirming the create dialog with a name leaves a call of the service
\* outstanding for the map just created, also when another generation was in
\* flight at that moment.
C28_CreatedMapIsGenerated ==
    [][CreateStep =>
          \E i \in 1..Len(pending') :
             /\ pending'[i].kind = "map"
             /\ pending'[i].map = maps'[Len(maps')].ref]_vars



(***************************************************************************)
(* persistence.js: the preset manager.  A preset is [id, name,             *)
(* trackerConfig]; the tracker configuration itself is left out, only that *)
(* a preset has one is kept.                                               *)
(***************************************************************************)
MaxPresets == 3

\* presets[presetId]: the index of the preset, 0 when there is none
FindPreset(presets, presetId) ==
    IF \E i \in 1..Len(presets) : presets[i].id = presetId
    THEN CHOOSE i \in 1..Len(presets) : presets[i].id = presetId
    ELSE 0

\* presets[preset.id] = preset: a known key keeps its place, a new key comes last
PutPreset(presets, preset) ==
    IF FindPreset(presets, preset.id) # 0
    THEN [i \in 1..Len(presets) |-> IF presets[i].id = preset.id THEN preset ELSE presets[i]]
    ELSE Append(presets, preset)

\* delete presets[presetId]
DeletePresetKey(presets, presetId) == SelectSeq(presets, LAMBDA q : q.id # presetId)

\* the return value of the last function of the preset manager that was called
Called(fn, returned) == [fn |-> fn, returned |-> returned]

\* the variables of the map modal, which the preset manager leaves alone
modalVars == <<maps, activeMapId, characterLocations, isGenerating, selectedRoomId,
               pending, moveDialog, toast>>

MaxPresetClock == 2

\* Date.now() of a handler that reads the clock: handlers run at distinct times
Clock == {t \in {now + 1} : t <= MaxPresetClock}

\* migrateToPresetManager(), which loadSettings() calls
migrateToPresetManager ==
    /\ presetManager' =
          IF Len(presetManager.presets) = 0
          THEN [presetManager EXCEPT
                  !.presets = <<[id |-> Str("preset_default"), name |-> "Default",
                                 trackerConfig |-> TRUE]>>,
                  !.activePresetId = Str("preset_default"),
                  !.defaultPresetId = Str("preset_default")]
          ELSE presetManager
    /\ output' = Called("migrateToPresetManager", Undefined)
    /\ UNCHANGED <<input, modalVars, now>>

\* setDefaultPreset(presetId)
setDefaultPreset(presetId) ==
    /\ presetManager' =
          IF FindPreset(presetManager.presets, presetId) # 0
          THEN [presetManager EXCEPT !.defaultPresetId = presetId]
          ELSE presetManager
    /\ output' = Called("setDefaultPreset", Undefined)
    /\ UNCHANGED <<input, modalVars, now>>

PresetNames == {"scout"}

\* createPreset(name) at time t
createPreset(name, t) ==
    /\ FindPreset(presetManager.presets, Str("preset_" \o ToString(t))) # 0
          \/ Len(presetManager.presets) < MaxPresets
    /\ now' = t
    /\ presetManager' =
          [presetManager EXCEPT
             !.presets = PutPreset(@, [id |-> Str("preset_" \o ToString(t)), name |-> name,
                                       trackerConfig |-> TRUE]),
             !.activePresetId = Str("preset_" \o ToString(t))]
    /\ output' = Called("createPreset", Str("preset_" \o ToString(t)))
    /\ UNCHANGED <<input, modalVars>>

\* the preset manager after loadPreset(presetId), and whether it loaded
LoadedPreset(pm, presetId) ==
    Bind(FindPreset(pm.presets, presetId), LAMBDA i :
       IF i # 0 /\ pm.presets[i].trackerConfig
       THEN [pm |-> [pm EXCEPT !.activePresetId = presetId], returned |-> TRUE]
       ELSE [pm |-> pm, returned |-> FALSE])

\* loadPreset(presetId)
loadPreset(presetId) ==
    /\ presetManager' = LoadedPreset(presetManager, presetId).pm
    /\ output' = Called("loadPreset", Bool(LoadedPreset(presetManager, presetId).returned))
    /\ UNCHANGED <<input, modalVars, now>>

\* the associations without those of presetId
WithoutAssociationsOf(associations, presetId) ==
    [k \in {k \in DOMAIN associations : associations[k] # presetId} |-> associations[k]]

\* deletePreset() that deletes also when one preset is left
DeletedPresetUnguarded(pm, presetId) ==
    Bind([pm EXCEPT
            !.characterAssociations = WithoutAssociationsOf(@, presetId),
            !.presets = DeletePresetKey(@, presetId)],
         LAMBDA rest :
            [pm |-> IF pm.activePresetId = presetId /\ Len(rest.presets) > 0
                    THEN LoadedPreset(rest, rest.presets[1].id).pm
                    ELSE rest,
             returned |-> TRUE])

\* the preset manager after deletePreset(presetId), and what it returned
DeletedPreset(pm, presetId) ==
    IF Len(pm.presets) <= 1
    THEN [pm |-> pm, returned |-> FALSE]
    ELSE Bind([pm EXCEPT
                 !.characterAssociations = WithoutAssociationsOf(@, presetId),
                 !.presets = DeletePresetKey(@, presetId)],
              LAMBDA rest :
                 [pm |-> IF pm.activePresetId = presetId /\ Len(rest.presets) > 0
                         THEN LoadedPreset(rest, rest.presets[1].id).pm
                         ELSE rest,
                  returned |-> TRUE])

\* deletePreset(presetId)
deletePreset(presetId) ==
    /\ presetManager' = DeletedPreset(presetManager, presetId).pm
    /\ output' = Called("deletePreset", Bool(DeletedPreset(presetManager, presetId).returned))
    /\ UNCHANGED <<input, modalVars, now>>

\* getCurrentEntityKey(): no character, or the character of the chat
EntityKeys == {Null, Str("char_0")}

\* associatePresetWithCurrentEntity(), with what getCurrentEntityKey() returns
associatePresetWithCurrentEntity(entityKey) ==
    /\ presetManager' =
          IF Truthy(entityKey) /\ Truthy(presetManager.activePresetId)
          THEN [presetManager EXCEPT
                  !.characterAssociations =
                     [k \in DOMAIN @ \cup {entityKey.str} |->
                         IF k = entityKey.str THEN presetManager.activePresetId ELSE @[k]]]
          ELSE presetManager
    /\ output' = Called("associatePresetWithCurrentEntity", Undefined)
    /\ UNCHANGED <<input, modalVars, now>>

\* `${name} (${counter})`
Numbered(name, counter) == name \o " (" \o ToString(counter) \o ")"

\* the first counter from 1 for which the numbered name is not taken
FreeCounter(existingNames, nameLower) ==
    CHOOSE counter \in 1..(MaxPresets + 1) :
       /\ Numbered(nameLower, counter) \notin existingNames
       /\ \A c \in 1..(counter - 1) : Numbered(nameLower, c) \in existingNames

\* the first preset with the name, whatever the case of its letters, deleted
WithoutFirstNamed(presets, nameLower) ==
    IF \E i \in 1..Len(presets) : Lower(presets[i].name) = nameLower
    THEN Bind(CHOOSE i \in 1..Len(presets) :
                /\ Lower(presets[i].name) = nameLower
                /\ \A j \in 1..(i - 1) : Lower(presets[j].name) # nameLower,
              LAMBDA i : Remove(presets, i))
    ELSE presets

RECURSIVE ImportEntries(_, _, _, _, _, _)
\* the loop of importPresets over the entries of importData.presets
ImportEntries(entries, presets, existingNames, importCount, overwrite, t) ==
    IF entries = <<>> THEN [presets |-> presets, importCount |-> importCount]
    ELSE LET preset == Head(entries)
             nameLower == Lower(preset.name)
             taken == nameLower \in existingNames
             name == IF taken /\ ~overwrite
                     THEN Numbered(preset.name, FreeCounter(existingNames, nameLower))
                     ELSE preset.name
             kept == IF taken /\ overwrite THEN WithoutFirstNamed(presets, nameLower)
                     ELSE presets
             newId == Str("preset_" \o ToString(t) \o "_" \o ToString(importCount))
         IN IF preset.name = "" \/ ~preset.trackerConfig
            THEN ImportEntries(Tail(entries), presets, existingNames, importCount,
                               overwrite, t)
            ELSE ImportEntries(Tail(entries),
                               PutPreset(kept, [id |-> newId, name |-> name,
                                                trackerConfig |-> TRUE]),
                               existingNames \cup {Lower(name)}, importCount + 1,
                               overwrite, t)

\* import files: without presets, with one preset named like the default one,
\* with two presets of one name, and with entries that lack a name or a
\* tracker configuration
ImportFiles ==
    {[presets |-> Undefined],
     [presets |-> Arr(<<[name |-> "Default", trackerConfig |-> TRUE]>>)],
     [presets |-> Arr(<<[name |-> "scout", trackerConfig |-> TRUE],
                        [name |-> "scout", trackerConfig |-> TRUE]>>)],
     [presets |-> Arr(<<[name |-> "", trackerConfig |-> TRUE],
                        [name |-> "scout", trackerConfig |-> FALSE]>>)]}

\* importPresets(importData, overwrite) at time t
importPresets(importData, overwrite, t) ==
    IF ~IsArr(importData.presets)
    THEN /\ output' = Called("importPresets", Thrown)
         /\ UNCHANGED <<input, modalVars, now, presetManager>>
    ELSE Bind(ImportEntries(importData.presets.arr, presetManager.presets,
                            {Lower(presetManager.presets[i].name) :
                                i \in 1..Len(presetManager.presets)},
                            0, overwrite, t),
              LAMBDA r :
                 /\ Len(r.presets) <= MaxPresets
                 /\ now' = t
                 /\ presetManager' = [presetManager EXCEPT !.presets = r.presets]
                 /\ output' = Called("importPresets", Num(r.importCount))
                 /\ UNCHANGED <<input, modalVars>>)

\* an id that names no preset
UnknownPresetId == Str("preset_9")

\* the ids the functions are called with: those of the presets, and a stale one
CallablePresetIds ==
    {presetManager.presets[i].id : i \in 1..Len(presetManager.presets)}
    \cup {UnknownPresetId}

NextPresets ==
    \/ migrateToPresetManager
    \/ \E presetId \in CallablePresetIds : setDefaultPreset(presetId)
    \/ \E name \in PresetNames : \E t \in Clock : createPreset(name, t)
    \/ \E presetId \in CallablePresetIds : loadPreset(presetId)
    \/ \E presetId \in CallablePresetIds : deletePreset(presetId)
    \/ \E entityKey \in EntityKeys : associatePresetWithCurrentEntity(entityKey)
    \/ \E importData \in ImportFiles : \E overwrite \in BOOLEAN : \E t \in Clock :
          importPresets(importData, overwrite, t)

SpecPresets == Init /\ [][NextPresets]_vars

\* deletePreset is called
DeleteStep == \E presetId \in CallablePresetIds : deletePreset(presetId)

\* C29: deletePreset called when one preset exists returns false and changes
\* nothing, and no call of createPreset, deletePreset or importPresets, with
\* or without overwrite, takes the number of presets from one or more to zero.
C29_LastPresetIsKept ==
    /\ [][(DeleteStep /\ Len(presetManager.presets) = 1) =>
             /\ presetManager' = presetManager
             /\ output' = Called("deletePreset", Bool(FALSE))]_vars
    /\ [][Len(presetManager.presets) >= 1 => Len(presetManager'.presets) >= 1]_vars

\* deletePreset has just refused to delete the only preset
C29_DeleteOfLastPresetRefused ==
    /\ output = Called("deletePreset", Bool(FALSE))
    /\ Len(presetManager.presets) = 1

\* the id is null or the id of a preset
NamesPreset(presetId) ==
    presetId = Null \/ FindPreset(presetManager.presets, presetId) # 0

\* C30: activePresetId, defaultPresetId and every value of
\* characterAssociations is null or the id of a preset that exists.
C30_PresetReferencesResolve ==
    /\ NamesPreset(presetManager.activePresetId)
    /\ NamesPreset(presetManager.defaultPresetId)
    /\ \A k \in DOMAIN presetManager.characterAssociations :
          NamesPreset(presetManager.characterAssociations[k])

====
